---- MODULE Spec2Model ----
(***************************************************************************)
(* Model of moveit_servo's ServoCalcs (servo_calcs.cpp): the periodic      *)
(* control tick run(), the command callbacks and services, and the limit   *)
(* and scaling cascade applied to the joint deltas.                        *)
(*                                                                         *)
(* Numbers.  Doubles are modelled as integers.  Joint deltas live on the   *)
(* grid of multiples of publish_period, so that delta / publish_period is  *)
(* exact; the one product that leaves the grid (the collision and          *)
(* singularity scaling) is rounded toward zero to the grid.  Incoming      *)
(* command components are wire values "0", "NaN", ... with Num giving      *)
(* their number.                                                           *)
(*                                                                         *)
(* Time.  The unit of time is one call of Elapse; a command stream's age   *)
(* is now - latest_*_command_stamp_, saturated at the timeout, which is    *)
(* all the staleness test reads.                                           *)
(***************************************************************************)
EXTENDS Integers, Sequences, FiniteSets, TLC

VARIABLES
    status,                        \* status_
    paused,                        \* paused_
    wait_for_servo_commands,       \* wait_for_servo_commands_
    zero_velocity_count,           \* zero_velocity_count_
    latest_twist_stamped,          \* latest_twist_stamped_ (<<>>: null, <<msg>>: a message)
    latest_nonzero_twist_stamped,  \* latest_nonzero_twist_stamped_
    twist_command_age,             \* now - latest_twist_command_stamp_
    latest_joint_cmd,              \* latest_joint_cmd_ (<<>>: null, <<msg>>: a message)
    latest_nonzero_joint_cmd,      \* latest_nonzero_joint_cmd_
    joint_command_age,             \* now - latest_joint_command_stamp_
    collision_velocity_scale,      \* collision_velocity_scale_, in ScaleDen-ths
    prev_joint_velocity,           \* prev_joint_velocity_
    last_sent_command,             \* last_sent_command_
    position_filters,              \* position_filters_
    control_dimensions,            \* control_dimensions_
    use_gazebo,                    \* parameters_.use_gazebo
    tick,                          \* what the most recent run() did (NoTick after any other step)
    pause_log,                     \* history: where a pause without commands stands
    twist_stamp_log,               \* history: now - the receipt of the latest twist, any and stamped
    halt_run_log,                  \* history (<<>>: no run, <<n>>: n ticks): ticks without a nonzero command since the last accepted one
    collision_halt_log,            \* history: a servo tick read a collision scale of 0 since the last reset
    num_outgoing_halt_msgs_to_publish,  \* parameter: halt messages sent before going quiet (0: forever)
    latest_planning_frame,         \* latest_planning_frame_
    latest_robot_link_command_frame,  \* latest_robot_link_command_frame_
    tf_moveit_to_robot_cmd_frame,  \* tf_moveit_to_robot_cmd_frame_
    latest_state_mutex,            \* latest_state_mutex_: "free" or the thread that holds it
    stop_requested,                \* stop_requested_
    cycle,                         \* where the control thread stands in run(), and its locals
    reader,                        \* where a caller of getCommandFrameTransform stands
    drift_dimensions               \* drift_dimensions_

vars == <<status, paused, wait_for_servo_commands, zero_velocity_count,
          latest_twist_stamped, latest_nonzero_twist_stamped, twist_command_age,
          latest_joint_cmd, latest_nonzero_joint_cmd, joint_command_age,
          collision_velocity_scale, prev_joint_velocity, last_sent_command,
          position_filters, control_dimensions, use_gazebo, tick, pause_log,
          twist_stamp_log, halt_run_log, collision_halt_log,
          num_outgoing_halt_msgs_to_publish,
          latest_planning_frame,
          latest_robot_link_command_frame, tf_moveit_to_robot_cmd_frame,
          latest_state_mutex, stop_requested, cycle, reader,
          drift_dimensions>>

\* halt_run_log outside a run of ticks that follows an accepted nonzero command
NoRun == <<>>

\* the history variables
history == <<pause_log, twist_stamp_log, halt_run_log, collision_halt_log>>

\* what only the frame callbacks, the threads and stop() / start() change
frames_and_threads ==
    <<latest_planning_frame, latest_robot_link_command_frame,
      latest_state_mutex, stop_requested, cycle, reader>>

----------------------------------------------------------------------------
(* Parameters (parameters_) and the joint model's bounds.                  *)

NumJoints == 1
Joints == 1..NumJoints

publish_period == 2
incoming_command_timeout == 1
gazebo_redundant_message_count == 3
joint_scale == 1
joint_limit_margin == 2
lower_singularity_threshold == 2
hard_stop_singularity_threshold == 4

min_velocity == -3
max_velocity == 3
min_acceleration == -1
max_acceleration == 1
min_position == 0
max_position == 16

\* std::numeric_limits<int>::max(), scaled down
IntMax == 2

\* collision_velocity_scale_ takes the values 0/ScaleDen .. ScaleDen/ScaleDen
ScaleDen == 2

command_out_type == "trajectory_msgs/JointTrajectory"

NO_WARNING == "NO_WARNING"
DECELERATE_FOR_SINGULARITY == "DECELERATE_FOR_SINGULARITY"
HALT_FOR_SINGULARITY == "HALT_FOR_SINGULARITY"
HALT_FOR_COLLISION == "HALT_FOR_COLLISION"
JOINT_BOUND == "JOINT_BOUND"

StatusCode == {NO_WARNING, DECELERATE_FOR_SINGULARITY, HALT_FOR_SINGULARITY,
               HALT_FOR_COLLISION, JOINT_BOUND}

----------------------------------------------------------------------------
(* Arithmetic helpers.                                                     *)

Abs(a) == IF a < 0 THEN -a ELSE a

\* the quotient a / b (b > 0) rounded toward zero
TruncDiv(a, b) == IF a >= 0 THEN a \div b ELSE -((-a) \div b)

\* an N-vector with every entry v
Fill(v) == [j \in Joints |-> v]

\* the number a wire value stands for ("NaN" has none)
Num(c) ==
    CASE c = "0" -> 0
      [] c = "1" -> 1
      [] c = "2" -> 2
      [] c = "4" -> 4
      [] c = "-4" -> -4
      [] c = "-1" -> -1
      [] OTHER -> 0

isnan(c) == c = "NaN"

\* a range check that lets every component through
ExceedsUnit_Never(c) == FALSE

\* fabs(c) > 1 for a twist component (false for NaN)
ExceedsUnit(c) == ~isnan(c) /\ Abs(Num(c)) > 1

----------------------------------------------------------------------------
(* Parameters that are not numbers.                                        *)

publish_joint_positions == TRUE
publish_joint_velocities == TRUE

\* linear_scale and rotational_scale
linear_scale == 1

\* joint->getVariableBounds(): every active joint of the group is bounded
Bounds(j) ==
    [acceleration_bounded |-> TRUE, min_acceleration |-> min_acceleration,
     max_acceleration |-> max_acceleration,
     velocity_bounded |-> TRUE, min_velocity |-> min_velocity,
     max_velocity |-> max_velocity,
     position_bounded |-> TRUE, min_position |-> min_position,
     max_position |-> max_position]

----------------------------------------------------------------------------
(* Messages.                                                               *)

\* the six twist components, in the order linear x y z, angular x y z
TwistDims == 1..6

ZeroTwist == [i \in TwistDims |-> "0"]

\* a default-constructed geometry_msgs::TwistStamped: zero twist, stamp Time(0)
DefaultTwistStamped == [twist |-> ZeroTwist, stamp_is_zero |-> TRUE]

\* a default-constructed control_msgs::JointJog: no velocities, stamp Time(0)
DefaultJointJog == [velocities |-> <<>>, stamp_is_zero |-> TRUE]

\* isNonZero(TwistStamped): some component != 0.0 (NaN != 0.0 is true)
isNonZeroTwist(msg) == \E i \in TwistDims : msg.twist[i] # "0"

\* isNonZero(JointJog): not every velocity == 0.0 (NaN == 0.0 is false)
isNonZeroJog(msg) == \E k \in 1..Len(msg.velocities) : msg.velocities[k] # "0"

\* a trajectory_msgs::JointTrajectoryPoint
Point(positions, velocities, time_from_start) ==
    [positions |-> positions, velocities |-> velocities,
     time_from_start |-> time_from_start]

\* a default-constructed point: empty vectors
DefaultPoint == Point(<<>>, <<>>, 0)

----------------------------------------------------------------------------
(* Position filters (LowPassFilter, one per joint).  With the filter       *)
(* coefficient 1 the feedback term vanishes and the output is the mean of  *)
(* the last two inputs; the state kept is the previous input.              *)

LowPassFilter_reset(data) == data

LowPassFilter_filter(previous_measurement, new_measurement) ==
    [output |-> (previous_measurement + new_measurement) \div 2,
     state |-> new_measurement]

\* resetLowPassFilters(joint_state): every filter is reset to the joint's position
resetLowPassFilters(position) ==
    [j \in Joints |-> LowPassFilter_reset(position[j])]

\* lowPassFilterPositions: the filtered positions and the filters' new state
lowPassFilterPositions(filters, position) ==
    [position |-> [j \in Joints |-> LowPassFilter_filter(filters[j], position[j]).output],
     filters |-> [j \in Joints |-> LowPassFilter_filter(filters[j], position[j]).state]]

----------------------------------------------------------------------------
(* Limit enforcement and scaling.                                          *)

\* an acceleration clip that applies its limit with the sign reversed
ClipAcceleration_Reversed(j, delta, prev_velocity) ==
    LET b == Bounds(j)
        velocity == delta \div publish_period
        \* acceleration = (velocity - prev) / period, compared without dividing
        dv == velocity - prev_velocity
        clip_low == dv < b.min_acceleration * publish_period
        clip_high == dv > b.max_acceleration * publish_period
        acceleration_limit == IF clip_low THEN b.min_acceleration ELSE b.max_acceleration
        \* relative_change * delta
        target == (acceleration_limit * publish_period + prev_velocity) * publish_period
    IN  IF b.acceleration_bounded /\ (clip_low \/ clip_high)
           /\ delta # 0 /\ Abs(target) < Abs(delta)  \* fabs(relative_change) < 1
        THEN -target
        ELSE delta

\* one joint of enforceSRDFAccelVelLimits: the acceleration clip
ClipAcceleration(j, delta, prev_velocity) ==
    LET b == Bounds(j)
        velocity == delta \div publish_period
        \* acceleration = (velocity - prev) / period, compared without dividing
        dv == velocity - prev_velocity
        clip_low == dv < b.min_acceleration * publish_period
        clip_high == dv > b.max_acceleration * publish_period
        acceleration_limit == IF clip_low THEN b.min_acceleration ELSE b.max_acceleration
        \* relative_change * delta
        target == (acceleration_limit * publish_period + prev_velocity) * publish_period
    IN  IF b.acceleration_bounded /\ (clip_low \/ clip_high)
           /\ delta # 0 /\ Abs(target) < Abs(delta)  \* fabs(relative_change) < 1
        THEN target
        ELSE delta

\* one joint of enforceSRDFAccelVelLimits: the velocity clip
ClipVelocity(j, delta) ==
    LET b == Bounds(j)
        velocity == delta \div publish_period
        clip_low == velocity < b.min_velocity
        clip_high == velocity > b.max_velocity
        velocity_limit == IF clip_low THEN b.min_velocity ELSE b.max_velocity
        target == velocity_limit * publish_period
    IN  IF b.velocity_bounded /\ (clip_low \/ clip_high)
           /\ delta # 0 /\ Abs(target) < Abs(delta)  \* fabs(relative_change) < 1
        THEN target
        ELSE delta

\* enforceSRDFAccelVelLimits without its velocity clip
enforceSRDFAccelVelLimits_AccelerationOnly(delta_theta, prev_velocity) ==
    [j \in Joints |-> ClipAcceleration(j, delta_theta[j], prev_velocity[j])]

enforceSRDFAccelVelLimits(delta_theta, prev_velocity) ==
    [j \in Joints |->
        ClipVelocity(j, ClipAcceleration(j, delta_theta[j], prev_velocity[j]))]

\* a scale factor num/den
Scale(num, den) == [num |-> num, den |-> den]

\* collision_scale * singularity_scale * delta, rounded toward zero to the grid
ScaleDelta(collision_scale, singularity_scale, delta) ==
    publish_period *
        TruncDiv((delta \div publish_period) * collision_scale * singularity_scale.num,
                 ScaleDen * singularity_scale.den)

\* applyVelocityScaling, were it to clear status_ when nothing is in the way
applyVelocityScaling_Clearing(st, collision_scale, delta_theta, singularity_scale) ==
    LET status1 == IF collision_scale = 0 THEN HALT_FOR_COLLISION ELSE NO_WARNING
    IN  [status |-> status1,
         delta_theta |->
             IF status1 = HALT_FOR_COLLISION THEN Fill(0)
             ELSE [j \in Joints |->
                      ScaleDelta(collision_scale, singularity_scale, delta_theta[j])]]

\* applyVelocityScaling: the new status_ and delta_theta_
applyVelocityScaling(st, collision_scale, delta_theta, singularity_scale) ==
    LET status1 == IF collision_scale = 0 THEN HALT_FOR_COLLISION ELSE st
        scaled == [j \in Joints |->
                      ScaleDelta(collision_scale, singularity_scale, delta_theta[j])]
    IN  [status |-> status1,
         delta_theta |-> IF status1 = HALT_FOR_COLLISION THEN Fill(0) ELSE scaled]

\* a ramp that starts at the lower threshold itself
velocityScalingFactorForSingularity_FromThreshold(st, kin, u_dot) ==
    LET dot == IF kin.ini_condition >= kin.new_condition THEN -u_dot ELSE u_dot
    IN  IF dot > 0
        THEN IF kin.ini_condition >= lower_singularity_threshold
                /\ kin.ini_condition < hard_stop_singularity_threshold
             THEN [scale |-> Scale(hard_stop_singularity_threshold - kin.ini_condition,
                                   hard_stop_singularity_threshold
                                       - lower_singularity_threshold),
                   status |-> DECELERATE_FOR_SINGULARITY, dot |-> dot]
             ELSE IF kin.ini_condition > hard_stop_singularity_threshold
             THEN [scale |-> Scale(0, 1), status |-> HALT_FOR_SINGULARITY, dot |-> dot]
             ELSE [scale |-> Scale(1, 1), status |-> st, dot |-> dot]
        ELSE [scale |-> Scale(1, 1), status |-> st, dot |-> dot]

\* velocityScalingFactorForSingularity: the scale and the new status_.
\* kin.ini_condition and kin.new_condition are the condition numbers of the
\* Jacobian and of the probe's Jacobian, u_dot the dot product of the last
\* column of U (before any flip) with the commanded velocity.
velocityScalingFactorForSingularity(st, kin, u_dot) ==
    LET dot == IF kin.ini_condition >= kin.new_condition THEN -u_dot ELSE u_dot
    IN  IF dot > 0
        THEN IF kin.ini_condition > lower_singularity_threshold
                /\ kin.ini_condition < hard_stop_singularity_threshold
             THEN [scale |-> Scale(hard_stop_singularity_threshold - kin.ini_condition,
                                   hard_stop_singularity_threshold
                                       - lower_singularity_threshold),
                   status |-> DECELERATE_FOR_SINGULARITY, dot |-> dot]
             ELSE IF kin.ini_condition > hard_stop_singularity_threshold
             THEN [scale |-> Scale(0, 1), status |-> HALT_FOR_SINGULARITY, dot |-> dot]
             ELSE [scale |-> Scale(1, 1), status |-> st, dot |-> dot]
        ELSE [scale |-> Scale(1, 1), status |-> st, dot |-> dot]

----------------------------------------------------------------------------
(* Building the outgoing trajectory.                                       *)

\* satisfiesPositionBounds(joint, margin) of the kinematic state
satisfiesPositionBounds(j, position, margin) ==
    /\ position >= Bounds(j).min_position - margin
    /\ position <= Bounds(j).max_position + margin

\* enforceSRDFPositionLimits: FALSE when some joint is halting.  kin_position
\* and kin_velocity are kinematic_state_'s joint positions and velocities,
\* original the positions of original_joint_state_.
enforceSRDFPositionLimits(original, kin_position, kin_velocity) ==
    ~ \E j \in Joints :
        /\ ~satisfiesPositionBounds(j, kin_position[j], -joint_limit_margin)
        /\ Bounds(j).position_bounded
        /\ \/ /\ kin_velocity[j] < 0
              /\ original[j] < Bounds(j).min_position + joint_limit_margin
           \/ /\ kin_velocity[j] > 0
              /\ original[j] > Bounds(j).max_position - joint_limit_margin

\* suddenHalt: only the first point is written
suddenHalt(points, original) ==
    LET pts == IF points = <<>> THEN <<Point(Fill(0), Fill(0), 0)>> ELSE points
        first == pts[1]
        halted == [first EXCEPT
                     !.positions = IF publish_joint_positions
                                   THEN original ELSE first.positions,
                     !.velocities = IF publish_joint_velocities
                                    THEN Fill(0) ELSE first.velocities]
    IN  [pts EXCEPT ![1] = halted]

\* insertRedundantPointsIntoTrajectory: resize to count, then points 2 .. count-1
\* (0-based) are copies of point 0; point 1 is whatever the resize left there
insertRedundantPointsIntoTrajectory(points, count) ==
    [k \in 1..count |->
        IF k - 1 >= 2
        THEN [points[1] EXCEPT !.time_from_start = (k - 1) * publish_period]
        ELSE IF k <= Len(points) THEN points[k] ELSE DefaultPoint]

\* composeJointTrajMessage on an empty trajectory: one point
composeJointTrajMessage(position, velocity) ==
    <<Point(IF publish_joint_positions THEN position ELSE <<>>,
            IF publish_joint_velocities THEN velocity ELSE <<>>,
            publish_period)>>

\* calculateJointVelocities
calculateJointVelocities(delta_theta) ==
    [j \in Joints |-> delta_theta[j] \div publish_period]

\* convertDeltasToOutgoingCmd: the trajectory, the new status_ and the filters
convertDeltasToOutgoingCmd(st, filters, original, delta_theta, kin_position, kin_velocity, gazebo) ==
    LET incremented == [j \in Joints |-> original[j] + delta_theta[j]]
        filtered == lowPassFilterPositions(filters, incremented)
        composed == composeJointTrajMessage(filtered.position,
                                            calculateJointVelocities(delta_theta))
        within == enforceSRDFPositionLimits(original, kin_position, kin_velocity)
        points == IF within THEN composed ELSE suddenHalt(composed, original)
    IN  [usable |-> TRUE,
         status |-> IF within THEN st ELSE JOINT_BOUND,
         position_filters |-> filtered.filters,
         points |-> IF gazebo
                    THEN insertRedundantPointsIntoTrajectory(
                             points, gazebo_redundant_message_count)
                    ELSE points]

----------------------------------------------------------------------------
(* The servo calculations.  Both return the members they write: status_,   *)
(* prev_joint_velocity_, position_filters_, delta_theta_ and the points    *)
(* of the outgoing trajectory.                                             *)

\* the Jacobian of the six-dimensional task, each row named by its
\* dimension; a tick that builds none
Jacobian == [i \in TwistDims |-> i]
NoReduction == [jacobian |-> <<>>, delta_x |-> <<>>]

\* removeDimension, rows counted from 1: the rows below row_to_remove move
\* up by one (the block and segment assignments copy from the next row
\* down, in ascending order), then both are cut to one row fewer
removeDimension(jacobian, delta_x, row_to_remove) ==
    LET num_rows == Len(jacobian) - 1
        moved(seq) == [k \in 1..num_rows |->
                          IF row_to_remove <= num_rows /\ k >= row_to_remove
                          THEN seq[k + 1] ELSE seq[k]]
    IN  [jacobian |-> moved(jacobian), delta_x |-> moved(delta_x)]

\* the loop over the drift dimensions, were it to run from the first row up
RECURSIVE removeDriftDimensions_Ascending(_, _, _, _)
removeDriftDimensions_Ascending(jacobian, delta_x, drift_dims, dimension) ==
    IF dimension < 1 THEN [jacobian |-> jacobian, delta_x |-> delta_x]
    ELSE LET row == Len(drift_dims) + 1 - dimension
             m == IF drift_dims[row] /\ Len(jacobian) > 1
                  THEN removeDimension(jacobian, delta_x,
                                       IF row <= Len(jacobian) THEN row
                                       ELSE Len(jacobian))
                  ELSE [jacobian |-> jacobian, delta_x |-> delta_x]
         IN  removeDriftDimensions_Ascending(m.jacobian, m.delta_x, drift_dims,
                                             dimension - 1)

\* cartesianServoCalcs: "Remove the Jacobian rows corresponding to True in
\* the vector drift_dimensions", from row dimension down to the first
RECURSIVE removeDriftDimensions(_, _, _, _)
removeDriftDimensions(jacobian, delta_x, drift_dims, dimension) ==
    IF dimension < 1 THEN [jacobian |-> jacobian, delta_x |-> delta_x]
    ELSE LET m == IF drift_dims[dimension] /\ Len(jacobian) > 1
                  THEN removeDimension(jacobian, delta_x, dimension)
                  ELSE [jacobian |-> jacobian, delta_x |-> delta_x]
         IN  removeDriftDimensions(m.jacobian, m.delta_x, drift_dims,
                                   dimension - 1)

\* a servo calculation that returned false before writing anything
Rejected(st, prev_velocity, filters) ==
    [usable |-> FALSE, committed |-> FALSE, status |-> st,
     prev_joint_velocity |-> prev_velocity, position_filters |-> filters,
     delta_theta |-> Fill(0), points |-> <<>>,
     ini_condition |-> 0, dot |-> 0, singularity_scale |-> Scale(1, 1),
     raw_delta |-> Fill(0), clipped_delta |-> Fill(0),
     delta_x |-> <<>>, reduced |-> NoReduction]

\* the common tail of cartesianServoCalcs and jointServoCalcs, from
\* applyVelocityScaling on; clipped is the delta after enforceSRDFAccelVelLimits
ScaleAndConvert(st, filters, clipped, singularity, collision_scale, original, kin_position, kin_velocity, gazebo) ==
    LET scaled == applyVelocityScaling(st, collision_scale, clipped, singularity.scale)
        conv == convertDeltasToOutgoingCmd(scaled.status, filters, original,
                                           scaled.delta_theta, kin_position,
                                           kin_velocity, gazebo)
    IN  [usable |-> conv.usable, committed |-> TRUE, status |-> conv.status,
         prev_joint_velocity |->
             [j \in Joints |-> scaled.delta_theta[j] \div publish_period],
         position_filters |-> conv.position_filters,
         delta_theta |-> scaled.delta_theta, points |-> conv.points,
         ini_condition |-> singularity.ini_condition, dot |-> singularity.dot,
         singularity_scale |-> singularity.scale,
         raw_delta |-> clipped, clipped_delta |-> clipped,
         delta_x |-> <<>>, reduced |-> NoReduction,
         kin_position |-> kin_position]

\* scaleCartesianCommand, command_in_type "unitless", linear and rotational
\* scale alike
scaleCartesianCommand(twist) ==
    [i \in TwistDims |-> linear_scale * publish_period * Num(twist[i])]

\* scaleJointCommand, command_in_type "unitless"; the command names the
\* joints in the internal order
scaleJointCommand(cmd) ==
    [j \in Joints |->
        IF j <= Len(cmd.velocities)
        THEN Num(cmd.velocities[j]) * joint_scale * publish_period
        ELSE 0]

\* a twist that keeps its uncontrolled dimensions
ZeroUncontrolled_Kept(twist, control_dims) == twist

\* "Set uncontrolled dimensions to 0 in command frame"
ZeroUncontrolled(twist, control_dims) ==
    [i \in TwistDims |-> IF control_dims[i] THEN twist[i] ELSE "0"]

\* cartesianServoCalcs.  js is the measured joint state, kin what the
\* kinematics give this tick: pinv_delta, the joint delta the pseudoinverse
\* maps a nonzero delta_x to; ini_condition, new_condition, u_dot (see
\* velocityScalingFactorForSingularity); probe, the joint step of the
\* singularity probe, which stays in kinematic_state_.
cartesianServoCalcs(st, prev_velocity, filters, cmd, control_dims, drift_dims, collision_scale, js, kin, gazebo) ==
    IF \E i \in TwistDims : isnan(cmd.twist[i])
    THEN Rejected(st, prev_velocity, filters)
    ELSE IF \E i \in TwistDims : ExceedsUnit(cmd.twist[i])
    THEN Rejected(st, prev_velocity, filters)
    ELSE
    LET controlled == ZeroUncontrolled(cmd.twist, control_dims)
        delta_x == scaleCartesianCommand(controlled)
        moving == \E i \in TwistDims : delta_x[i] # 0
        \* pseudo_inverse * delta_x
        raw == IF moving THEN kin.pinv_delta ELSE Fill(0)
        clipped == enforceSRDFAccelVelLimits(raw, prev_velocity)
        sing == velocityScalingFactorForSingularity(
                    st, kin, IF moving THEN kin.u_dot ELSE 0)
        kin_position == [j \in Joints |-> js.position[j] + kin.probe[j]]
    IN  [ScaleAndConvert(sing.status, filters, clipped,
                         [scale |-> sing.scale, ini_condition |-> kin.ini_condition,
                          dot |-> sing.dot],
                         collision_scale, js.position, kin_position, js.velocity,
                         gazebo)
            EXCEPT !.raw_delta = raw, !.delta_x = delta_x,
                   !.reduced = removeDriftDimensions(Jacobian, delta_x, drift_dims,
                                                     Len(Jacobian))]

\* jointServoCalcs
jointServoCalcs(st, prev_velocity, filters, cmd, collision_scale, js, gazebo) ==
    IF \E k \in 1..Len(cmd.velocities) : isnan(cmd.velocities[k])
    THEN Rejected(st, prev_velocity, filters)
    ELSE
    LET raw == scaleJointCommand(cmd)
        clipped == enforceSRDFAccelVelLimits(raw, prev_velocity)
    IN  [ScaleAndConvert(st, filters, clipped,
                         [scale |-> Scale(1, 1), ini_condition |-> 0, dot |-> 0],
                         collision_scale, js.position, js.position, js.velocity,
                         gazebo)
            EXCEPT !.raw_delta = raw]

----------------------------------------------------------------------------
(* run(): one tick of the control loop, from the joint-state update on.    *)

\* the idle branch of run(): the copy of last_sent_command_.  The loop that
\* follows assigns zero velocities to its loop variable, a copy of each point
\* ("for (auto point : ...)"), so the trajectory keeps the velocities it had.
IdleTrajectory(last_sent) == last_sent.points

\* a publish block with "if" in place of "else if": both formats go out
PublishOutgoing_Both(points) ==
    <<[type |-> "JointTrajectory", points |-> points],
      [type |-> "Float64MultiArray", points |-> points]>>

\* what outgoing_cmd_pub_ is given when ok_to_publish_: the messages published
PublishOutgoing(points) ==
    IF command_out_type = "trajectory_msgs/JointTrajectory"
    THEN <<[type |-> "JointTrajectory", points |-> points]>>
    ELSE IF command_out_type = "std_msgs/Float64MultiArray"
    THEN <<[type |-> "Float64MultiArray",
            points |-> IF points = <<>> THEN <<>>
                       ELSE IF publish_joint_positions
                       THEN <<Point(points[1].positions, <<>>, 0)>>
                       ELSE <<Point(<<>>, points[1].velocities, 0)>>]>>
    ELSE <<>>

\* the observation of a step that is not a tick
NoTick ==
    [path |-> "none", usable |-> FALSE, committed |-> FALSE, published |-> <<>>,
     original |-> Fill(0), kin_velocity |-> Fill(0), collision_scale |-> 0,
     delta_theta |-> Fill(0), ini_condition |-> 0, dot |-> 0,
     have_nonzero_command |-> FALSE, halted |-> FALSE,
     prev_sent_velocity |-> Fill(0), new_condition |-> 0, u_dot |-> 0,
     singularity_scale |-> Scale(1, 1),
     raw_delta |-> Fill(0), clipped_delta |-> Fill(0),
     delta_x |-> <<>>, reduced |-> NoReduction, kin_position |-> Fill(0)]

\* the members run() reads and writes, as a record
Members ==
    [status |-> status, paused |-> paused,
     wait_for_servo_commands |-> wait_for_servo_commands,
     zero_velocity_count |-> zero_velocity_count,
     latest_twist_stamped |-> latest_twist_stamped,
     latest_nonzero_twist_stamped |-> latest_nonzero_twist_stamped,
     twist_command_age |-> twist_command_age,
     latest_joint_cmd |-> latest_joint_cmd,
     latest_nonzero_joint_cmd |-> latest_nonzero_joint_cmd,
     joint_command_age |-> joint_command_age,
     collision_velocity_scale |-> collision_velocity_scale,
     prev_joint_velocity |-> prev_joint_velocity,
     last_sent_command |-> last_sent_command,
     position_filters |-> position_filters,
     control_dimensions |-> control_dimensions,
     use_gazebo |-> use_gazebo,
     latest_planning_frame |-> latest_planning_frame,
     latest_robot_link_command_frame |-> latest_robot_link_command_frame,
     drift_dimensions |-> drift_dimensions]

\* the snapshot run() takes under latest_state_mutex_
Snapshot(s) ==
    [twist_stamped_cmd |-> IF s.latest_twist_stamped # <<>>
                           THEN s.latest_twist_stamped[1] ELSE DefaultTwistStamped,
     joint_servo_cmd |-> IF s.latest_joint_cmd # <<>>
                         THEN s.latest_joint_cmd[1] ELSE DefaultJointJog,
     twist_command_is_stale |-> s.twist_command_age >= incoming_command_timeout,
     joint_command_is_stale |-> s.joint_command_age >= incoming_command_timeout,
     have_nonzero_twist_stamped |-> s.latest_nonzero_twist_stamped,
     have_nonzero_joint_command |-> s.latest_nonzero_joint_cmd,
     planning_frame |-> s.latest_planning_frame,
     robot_link_command_frame |-> s.latest_robot_link_command_frame]

\* calculateCommandFrameTransform, for frames the kinematic state knows: the
\* transform from planning_frame to command_frame, named by its two ends
calculateCommandFrameTransform(planning_frame, command_frame) ==
    [from |-> planning_frame, to |-> command_frame]

\* a dispatch that tries the joint command first
Dispatch_JointFirst(s, c) ==
        IF s.wait_for_servo_commands \/ s.paused THEN "paused"
        ELSE IF c.have_nonzero_joint_command /\ ~c.joint_command_is_stale
        THEN "joint"
        ELSE IF c.have_nonzero_twist_stamped /\ ~c.twist_command_is_stale
        THEN "cartesian"
        ELSE "idle"

\* the branch run() takes, from the members s and the snapshot c
Dispatch(s, c) ==
        IF s.wait_for_servo_commands \/ s.paused THEN "paused"
        ELSE IF c.have_nonzero_twist_stamped /\ ~c.twist_command_is_stale
        THEN "cartesian"
        ELSE IF c.have_nonzero_joint_command /\ ~c.joint_command_is_stale
        THEN "joint"
        ELSE "idle"

\* the kinematics of a tick that does not take the Cartesian branch
NoKinematics ==
    [pinv_delta |-> Fill(0), ini_condition |-> 0, new_condition |-> 0,
     u_dot |-> 0, probe |-> Fill(0)]

\* a paused branch that also forgets the velocity of the last servo tick
runPaused_ForgetsVelocity(s, c, js) ==
    [s EXCEPT
       !.position_filters = resetLowPassFilters(js.position),
       !.prev_joint_velocity = Fill(0),
       !.wait_for_servo_commands =
           c.twist_stamped_cmd.stamp_is_zero /\ c.joint_servo_cmd.stamp_is_zero]

\* the paused / waiting branch of run()
runPaused(s, c, js) ==
    [s EXCEPT
       !.position_filters = resetLowPassFilters(js.position),
       !.wait_for_servo_commands =
           c.twist_stamped_cmd.stamp_is_zero /\ c.joint_servo_cmd.stamp_is_zero]

\* a rejected servo branch that zeroes the velocity kept for the limits
runRejected_ForgetsVelocity(s, r, js) ==
    [s EXCEPT
       !.status = r.status,
       !.prev_joint_velocity = Fill(0),
       !.position_filters = resetLowPassFilters(js.position)]

\* a rejected servo branch that returns without resetting the filters
runRejected_Unreset(s, r, js) ==
    [s EXCEPT
       !.status = r.status,
       !.prev_joint_velocity = r.prev_joint_velocity,
       !.position_filters = r.position_filters]

\* run() after a servo branch returned false
runRejected(s, r, js) ==
    [s EXCEPT
       !.status = r.status,
       !.prev_joint_velocity = r.prev_joint_velocity,
       !.position_filters = resetLowPassFilters(js.position)]

\* a skip test that forgets that 0 halt messages means "republish forever"
SkipPublication_NoForever(have_nonzero_command, count) ==
    /\ ~have_nonzero_command
    /\ count > num_outgoing_halt_msgs_to_publish

\* a skip test that goes quiet one tick early
SkipPublication_OneEarly(have_nonzero_command, count) ==
    /\ ~have_nonzero_command
    /\ num_outgoing_halt_msgs_to_publish # 0
    /\ count >= num_outgoing_halt_msgs_to_publish

\* run(): "Skip the servoing publication if all inputs have been zero for
\* several cycles in a row"; count is zero_velocity_count_ before this tick's
\* increment
SkipPublication(have_nonzero_command, count) ==
    /\ ~have_nonzero_command
    /\ num_outgoing_halt_msgs_to_publish # 0
    /\ count > num_outgoing_halt_msgs_to_publish

\* run() from "If we should halt" to its end.  r is the servo branch's
\* result, or the idle branch's trajectory with updated_filters_ false.
runPublish(s, c, r, js, updated_filters) ==
    LET have_nonzero_command ==
            c.have_nonzero_twist_stamped \/ c.have_nonzero_joint_command
        points == IF ~have_nonzero_command
                  THEN suddenHalt(r.points, js.position) ELSE r.points
        ok_to_publish == ~SkipPublication(have_nonzero_command, s.zero_velocity_count)
        count == IF ~have_nonzero_command
                 THEN IF s.zero_velocity_count < IntMax
                      THEN s.zero_velocity_count + 1 ELSE s.zero_velocity_count
                 ELSE 0
    IN  [state |->
            [s EXCEPT
               !.status = r.status,
               !.prev_joint_velocity = r.prev_joint_velocity,
               !.zero_velocity_count = count,
               !.last_sent_command =
                   IF ok_to_publish THEN [points |-> points] ELSE @,
               !.position_filters =
                   IF updated_filters THEN r.position_filters
                   ELSE resetLowPassFilters(js.position)],
         published |-> IF ok_to_publish THEN PublishOutgoing(points) ELSE <<>>,
         halted |-> ~have_nonzero_command]

\* run() after the snapshot c was taken: the members after the tick, and
\* what the tick did
run(s, c, js, kin) ==
    LET path == Dispatch(s, c)
        have_nonzero_command ==
            c.have_nonzero_twist_stamped \/ c.have_nonzero_joint_command
        seen == [NoTick EXCEPT !.path = path, !.original = js.position,
                               !.kin_velocity = js.velocity,
                               !.kin_position = js.position,
                               !.collision_scale = s.collision_velocity_scale,
                               !.have_nonzero_command = have_nonzero_command,
                               !.new_condition = kin.new_condition,
                               !.u_dot = kin.u_dot,
                               !.prev_sent_velocity =
                                   s.last_sent_command.points[1].velocities]
    IN  IF path = "paused"
        THEN [state |-> runPaused(s, c, js), tick |-> seen]
        ELSE
        LET r == IF path = "cartesian"
                 THEN cartesianServoCalcs(s.status, s.prev_joint_velocity,
                          s.position_filters, c.twist_stamped_cmd,
                          s.control_dimensions, s.drift_dimensions,
                          s.collision_velocity_scale,
                          js, kin, s.use_gazebo)
                 ELSE IF path = "joint"
                 THEN jointServoCalcs(s.status, s.prev_joint_velocity,
                          s.position_filters, c.joint_servo_cmd,
                          s.collision_velocity_scale, js, s.use_gazebo)
                 ELSE [Rejected(s.status, s.prev_joint_velocity, s.position_filters)
                          EXCEPT !.usable = TRUE,
                                 !.points = IdleTrajectory(s.last_sent_command)]
            did == [seen EXCEPT !.usable = r.usable, !.committed = r.committed,
                                !.delta_theta = r.delta_theta,
                                !.ini_condition = r.ini_condition, !.dot = r.dot,
                                !.singularity_scale = r.singularity_scale,
                                !.raw_delta = r.raw_delta,
                                !.clipped_delta = r.clipped_delta,
                                !.delta_x = r.delta_x, !.reduced = r.reduced,
                                \* kinematic_state_ as the servo branch left it
                                !.kin_position =
                                    IF r.committed THEN r.kin_position
                                    ELSE js.position]
        IN  IF ~r.usable
            THEN [state |-> runRejected(s, r, js), tick |-> did]
            ELSE LET p == runPublish(s, c, r, js, r.committed)
                 IN  [state |-> p.state,
                      tick |-> [did EXCEPT !.published = p.published,
                                           !.halted = p.halted]]

----------------------------------------------------------------------------
(* The environment's inputs.                                               *)

OkTwist == [ZeroTwist EXCEPT ![1] = "1"]
NaNTwist == [ZeroTwist EXCEPT ![1] = "NaN"]

\* a twist or jog message with the header stamp set (to the time it is sent)
Stamped(body) == [body EXCEPT !.stamp_is_zero = FALSE]

\* stamped zero, valid and NaN twists, and a valid twist whose stamp is Time(0)
TwistMsgs ==
    [twist : {ZeroTwist, OkTwist, NaNTwist}, stamp_is_zero : {FALSE}]
    \cup [twist : {OkTwist}, stamp_is_zero : {TRUE}]

JogMsgs == [velocities : [Joints -> {"0", "4", "NaN"}], stamp_is_zero : {FALSE}]

\* measured joint states: within the margin of min_position and moving
\* toward it, within the margin at rest, or well inside the bounds at rest
JointStates ==
    {[position |-> Fill(0), velocity |-> Fill(-1)],
     [position |-> Fill(0), velocity |-> Fill(0)],
     [position |-> Fill(4), velocity |-> Fill(0)]}

\* kinematics away from any singularity, and past the hard stop moving
\* toward it
Kinematics ==
    [pinv_delta : [Joints -> {8}],
     ini_condition : {lower_singularity_threshold, hard_stop_singularity_threshold + 1},
     new_condition : {hard_stop_singularity_threshold + 2},
     u_dot : {1},
     probe : [Joints -> {0}]]

AllDimensions(b) == [i \in TwistDims |-> b]

----------------------------------------------------------------------------
(* Initial state: the constructor, and the member initialisers.            *)

\* parameters_.planning_frame and parameters_.robot_link_command_frame
planning_frame == "base_link"
robot_link_command_frame == "tool0"

\* tf_moveit_to_robot_cmd_frame_ has no initialiser: what it holds before the
\* first run() writes it is whatever the memory held, all zeros or not
ZeroTransform == [from |-> "", to |-> ""]
UninitializedTransforms == {ZeroTransform, [from |-> "?", to |-> "?"]}

\* the control thread outside run(), and no caller in getCommandFrameTransform
\* (internal: internal_joint_state_.position, which only run() touches;
\* measured: the joint-state message updateJoints() last looked at)
NoCycle ==
    [pc |-> "idle", locks |-> 0, js |-> <<>>, c |-> <<>>,
     internal |-> Fill(0), measured |-> <<>>]
NoReader == [pc |-> "out", transform |-> <<>>]

\* no twist was received yet: both ages at their cap
NoReceipt == [any |-> incoming_command_timeout, stamped |-> incoming_command_timeout]

Constructed(gazebo) ==
    /\ status = NO_WARNING
    /\ paused = FALSE
    /\ wait_for_servo_commands = TRUE
    /\ zero_velocity_count = 0
    /\ latest_twist_stamped = <<>>
    /\ latest_nonzero_twist_stamped = FALSE
    /\ twist_command_age = incoming_command_timeout
    /\ latest_joint_cmd = <<>>
    /\ latest_nonzero_joint_cmd = FALSE
    /\ joint_command_age = incoming_command_timeout
    /\ collision_velocity_scale = ScaleDen
    /\ prev_joint_velocity = Fill(0)
    /\ last_sent_command = [points |-> <<Point(Fill(4), Fill(0), publish_period)>>]
    /\ position_filters = Fill(0)
    /\ control_dimensions = AllDimensions(TRUE)
    /\ use_gazebo = gazebo
    /\ tick = NoTick
    /\ pause_log = "none"
    /\ twist_stamp_log = NoReceipt
    /\ halt_run_log = NoRun
    /\ collision_halt_log = FALSE
    /\ latest_planning_frame = planning_frame
    /\ latest_robot_link_command_frame = robot_link_command_frame
    /\ tf_moveit_to_robot_cmd_frame \in UninitializedTransforms
    /\ latest_state_mutex = "free"
    /\ stop_requested = FALSE
    /\ cycle = NoCycle
    /\ reader = NoReader
    /\ drift_dimensions = AllDimensions(FALSE)

Init == Constructed(FALSE) /\ num_outgoing_halt_msgs_to_publish = 1

----------------------------------------------------------------------------
(* Actions.                                                                *)

\* the timer fires and run() runs to its end, with a measured joint state
\* from JS and, on the Cartesian branch, kinematics from KIN
TickWith(JS, KIN) ==
    \E js \in JS :
        \E kin \in IF Dispatch(Members, Snapshot(Members)) = "cartesian"
                   THEN KIN ELSE {NoKinematics} :
            \E r \in {run(Members, Snapshot(Members), js, kin)} :
                /\ tf_moveit_to_robot_cmd_frame' =
                       calculateCommandFrameTransform(
                           Snapshot(Members).planning_frame,
                           Snapshot(Members).robot_link_command_frame)
                /\ status' = r.state.status
                /\ wait_for_servo_commands' = r.state.wait_for_servo_commands
                /\ zero_velocity_count' = r.state.zero_velocity_count
                /\ prev_joint_velocity' = r.state.prev_joint_velocity
                /\ last_sent_command' = r.state.last_sent_command
                /\ position_filters' = r.state.position_filters
                /\ tick' = r.tick
                /\ UNCHANGED <<paused, latest_twist_stamped,
                               latest_nonzero_twist_stamped, twist_command_age,
                               latest_joint_cmd, latest_nonzero_joint_cmd,
                               joint_command_age, collision_velocity_scale,
                               control_dimensions, use_gazebo,
                               num_outgoing_halt_msgs_to_publish,
                               frames_and_threads, drift_dimensions>>

\* a callback that takes the time of receipt where it should take the stamp
twistStampedCB_StampsReceipt(msg) ==
    /\ latest_twist_stamped' = <<msg>>
    /\ latest_nonzero_twist_stamped' = isNonZeroTwist(msg)
    /\ twist_command_age' = 0
    /\ tick' = NoTick
    /\ UNCHANGED <<status, paused, wait_for_servo_commands, zero_velocity_count,
                   latest_joint_cmd, latest_nonzero_joint_cmd, joint_command_age,
                   collision_velocity_scale, prev_joint_velocity,
                   last_sent_command, position_filters, control_dimensions,
                   use_gazebo,
                   num_outgoing_halt_msgs_to_publish,
                   tf_moveit_to_robot_cmd_frame, frames_and_threads, drift_dimensions>>

twistStampedCB(msg) ==
    /\ latest_twist_stamped' = <<msg>>
    /\ latest_nonzero_twist_stamped' = isNonZeroTwist(msg)
    /\ twist_command_age' = IF ~msg.stamp_is_zero THEN 0 ELSE twist_command_age
    /\ tick' = NoTick
    /\ UNCHANGED <<status, paused, wait_for_servo_commands, zero_velocity_count,
                   latest_joint_cmd, latest_nonzero_joint_cmd, joint_command_age,
                   collision_velocity_scale, prev_joint_velocity,
                   last_sent_command, position_filters, control_dimensions,
                   use_gazebo,
                   num_outgoing_halt_msgs_to_publish,
                   tf_moveit_to_robot_cmd_frame, frames_and_threads, drift_dimensions>>

jointCmdCB(msg) ==
    /\ latest_joint_cmd' = <<msg>>
    /\ latest_nonzero_joint_cmd' = isNonZeroJog(msg)
    /\ joint_command_age' = IF ~msg.stamp_is_zero THEN 0 ELSE joint_command_age
    /\ tick' = NoTick
    /\ UNCHANGED <<status, paused, wait_for_servo_commands, zero_velocity_count,
                   latest_twist_stamped, latest_nonzero_twist_stamped,
                   twist_command_age, collision_velocity_scale,
                   prev_joint_velocity, last_sent_command, position_filters,
                   control_dimensions, use_gazebo,
                   num_outgoing_halt_msgs_to_publish,
                   tf_moveit_to_robot_cmd_frame, frames_and_threads, drift_dimensions>>

collisionVelocityScaleCB(data) ==
    /\ collision_velocity_scale' = data
    /\ tick' = NoTick
    /\ UNCHANGED <<status, paused, wait_for_servo_commands, zero_velocity_count,
                   latest_twist_stamped, latest_nonzero_twist_stamped,
                   twist_command_age, latest_joint_cmd, latest_nonzero_joint_cmd,
                   joint_command_age, prev_joint_velocity, last_sent_command,
                   position_filters, control_dimensions, use_gazebo,
                   num_outgoing_halt_msgs_to_publish,
                   tf_moveit_to_robot_cmd_frame, frames_and_threads, drift_dimensions>>

changeControlDimensions(req) ==
    /\ control_dimensions' = req
    /\ tick' = NoTick
    /\ UNCHANGED <<status, paused, wait_for_servo_commands, zero_velocity_count,
                   latest_twist_stamped, latest_nonzero_twist_stamped,
                   twist_command_age, latest_joint_cmd, latest_nonzero_joint_cmd,
                   joint_command_age, collision_velocity_scale,
                   prev_joint_velocity, last_sent_command, position_filters,
                   use_gazebo,
                   num_outgoing_halt_msgs_to_publish,
                   tf_moveit_to_robot_cmd_frame, frames_and_threads, drift_dimensions>>

changeDriftDimensions(req) ==
    /\ drift_dimensions' = req
    /\ tick' = NoTick
    /\ UNCHANGED <<status, paused, wait_for_servo_commands, zero_velocity_count,
                   latest_twist_stamped, latest_nonzero_twist_stamped,
                   twist_command_age, latest_joint_cmd, latest_nonzero_joint_cmd,
                   joint_command_age, collision_velocity_scale,
                   prev_joint_velocity, last_sent_command, position_filters,
                   control_dimensions, use_gazebo,
                   num_outgoing_halt_msgs_to_publish,
                   tf_moveit_to_robot_cmd_frame, frames_and_threads>>

resetServoStatus ==
    /\ status' = NO_WARNING
    /\ tick' = NoTick
    /\ UNCHANGED <<paused, wait_for_servo_commands, zero_velocity_count,
                   latest_twist_stamped, latest_nonzero_twist_stamped,
                   twist_command_age, latest_joint_cmd, latest_nonzero_joint_cmd,
                   joint_command_age, collision_velocity_scale,
                   prev_joint_velocity, last_sent_command, position_filters,
                   control_dimensions, use_gazebo,
                   num_outgoing_halt_msgs_to_publish,
                   tf_moveit_to_robot_cmd_frame, frames_and_threads, drift_dimensions>>

setPaused(b) ==
    /\ paused' = b
    /\ tick' = NoTick
    /\ UNCHANGED <<status, wait_for_servo_commands, zero_velocity_count,
                   latest_twist_stamped, latest_nonzero_twist_stamped,
                   twist_command_age, latest_joint_cmd, latest_nonzero_joint_cmd,
                   joint_command_age, collision_velocity_scale,
                   prev_joint_velocity, last_sent_command, position_filters,
                   control_dimensions, use_gazebo,
                   num_outgoing_halt_msgs_to_publish,
                   tf_moveit_to_robot_cmd_frame, frames_and_threads, drift_dimensions>>

\* one unit of time passes: both command streams age
Elapse ==
    /\ twist_command_age' = IF twist_command_age < incoming_command_timeout
                            THEN twist_command_age + 1 ELSE twist_command_age
    /\ joint_command_age' = IF joint_command_age < incoming_command_timeout
                            THEN joint_command_age + 1 ELSE joint_command_age
    /\ tick' = NoTick
    /\ UNCHANGED <<status, paused, wait_for_servo_commands, zero_velocity_count,
                   latest_twist_stamped, latest_nonzero_twist_stamped,
                   latest_joint_cmd, latest_nonzero_joint_cmd,
                   collision_velocity_scale, prev_joint_velocity,
                   last_sent_command, position_filters, control_dimensions,
                   use_gazebo,
                   num_outgoing_halt_msgs_to_publish,
                   tf_moveit_to_robot_cmd_frame, frames_and_threads, drift_dimensions>>

----------------------------------------------------------------------------
(* The servo under every kind of command: stamped and unstamped, zero,     *)
(* valid and malformed; pause; collision scale; time passing.              *)

Tick == TickWith(JointStates, Kinematics) /\ UNCHANGED history
TwistReceived == (\E msg \in TwistMsgs : twistStampedCB(msg)) /\ UNCHANGED history
JogReceived == (\E msg \in JogMsgs : jointCmdCB(msg)) /\ UNCHANGED history
CollisionScaleReceived ==
    (\E data \in 0..ScaleDen : collisionVelocityScaleCB(data)) /\ UNCHANGED history
StatusReset == resetServoStatus /\ UNCHANGED history
PauseChanged == (\E b \in BOOLEAN : setPaused(b)) /\ UNCHANGED history
TimePasses == Elapse /\ UNCHANGED history

Next ==
    \/ Tick
    \/ TwistReceived
    \/ JogReceived
    \/ CollisionScaleReceived
    \/ StatusReset
    \/ PauseChanged
    \/ TimePasses

Spec == Init /\ [][Next]_vars

----------------------------------------------------------------------------
(* The limit cascade under stamped, well-formed commands: both signs of    *)
(* the joint delta, measured joint velocities, and kinematics at every     *)
(* distance from a singularity; with and without trajectory padding.       *)

LimitsTwistMsgs == [twist : {ZeroTwist, OkTwist}, stamp_is_zero : {FALSE}]

LimitsJogMsgs == [velocities : [Joints -> {"4", "-4"}], stamp_is_zero : {FALSE}]

\* with u_dot 1: the probe's condition number above every ini_condition
\* leaves the dot product positive, the one below flips it
LimitsKinematics ==
    [pinv_delta : [Joints -> {-8, 8}],
     ini_condition : lower_singularity_threshold + 1 .. hard_stop_singularity_threshold + 1,
     new_condition : {hard_stop_singularity_threshold + 2},
     u_dot : {1},
     probe : [Joints -> {0}]]
    \cup
    [pinv_delta : [Joints -> {-8, 8}],
     ini_condition : {lower_singularity_threshold + 1},
     new_condition : {1},
     u_dot : {1},
     probe : [Joints -> {0}]]

InitLimits ==
    /\ \E gazebo \in BOOLEAN : Constructed(gazebo)
    /\ num_outgoing_halt_msgs_to_publish = 1

LimitsJointStates == {js \in JointStates : js.position = Fill(0)}

LimitsTick == TickWith(LimitsJointStates, LimitsKinematics) /\ UNCHANGED history
LimitsTwistReceived ==
    (\E msg \in LimitsTwistMsgs : twistStampedCB(msg)) /\ UNCHANGED history
LimitsJogReceived ==
    (\E msg \in LimitsJogMsgs : jointCmdCB(msg)) /\ UNCHANGED history

NextLimits ==
    \/ LimitsTick
    \/ LimitsTwistReceived
    \/ LimitsJogReceived
    \/ CollisionScaleReceived
    \/ StatusReset
    \/ TimePasses

SpecLimits == InitLimits /\ [][NextLimits]_vars

----------------------------------------------------------------------------
(* Pausing and resuming.  pause_log follows a pause during which no        *)
(* command arrives: "quiet" from setPaused(true) on, "resumed" once        *)
(* setPaused(false) ends it, "first" after the first run() that follows;   *)
(* any command, and any step after that first run(), ends it ("none").     *)

PauseTwistMsgs == [twist : {ZeroTwist, OkTwist}, stamp_is_zero : {FALSE}]

PauseJointStates == {[position |-> Fill(4), velocity |-> Fill(0)]}

PauseKinematics ==
    [pinv_delta : [Joints -> {8}],
     ini_condition : {lower_singularity_threshold},
     new_condition : {1},
     u_dot : {1},
     probe : [Joints -> {0}]]

\* pause_log after a step that is neither a command, a pause change nor a tick
Carried == IF pause_log = "first" THEN "none" ELSE pause_log

PauseTick ==
    /\ TickWith(PauseJointStates, PauseKinematics)
    /\ pause_log' = IF pause_log = "resumed" THEN "first" ELSE Carried
    /\ UNCHANGED <<twist_stamp_log, halt_run_log, collision_halt_log>>
PauseTwistReceived ==
    (\E msg \in PauseTwistMsgs : twistStampedCB(msg)) /\ pause_log' = "none" /\ UNCHANGED <<twist_stamp_log, halt_run_log, collision_halt_log>>
PauseJogReceived ==
    (\E msg \in LimitsJogMsgs : jointCmdCB(msg)) /\ pause_log' = "none" /\ UNCHANGED <<twist_stamp_log, halt_run_log, collision_halt_log>>
Paused == setPaused(TRUE) /\ pause_log' = "quiet" /\ UNCHANGED <<twist_stamp_log, halt_run_log, collision_halt_log>>
Resumed ==
    /\ setPaused(FALSE)
    /\ pause_log' = IF pause_log = "quiet" THEN "resumed" ELSE "none"
    /\ UNCHANGED <<twist_stamp_log, halt_run_log, collision_halt_log>>
PauseTimePasses == Elapse /\ pause_log' = Carried /\ UNCHANGED <<twist_stamp_log, halt_run_log, collision_halt_log>>

NextPause ==
    \/ PauseTick
    \/ PauseTwistReceived
    \/ PauseJogReceived
    \/ Paused
    \/ Resumed
    \/ PauseTimePasses

SpecPause == Init /\ [][NextPause]_vars

----------------------------------------------------------------------------
(* Properties.                                                             *)

\* every velocity of every point of every message the last run() published
PublishedVelocities ==
    UNION {UNION {{tick.published[m].points[k].velocities[j] :
                      j \in DOMAIN tick.published[m].points[k].velocities} :
                  k \in DOMAIN tick.published[m].points} :
           m \in DOMAIN tick.published}

\* the last run() took one of the three dispatch paths
Dispatched == tick.path \in {"cartesian", "joint", "idle"}

\* C1: one run() publishes at most one outgoing command.
C1_AtMostOnePublish == Len(tick.published) <= 1

\* a Cartesian tick that published its trajectory
C1_Witness == tick.path = "cartesian" /\ tick.committed /\ Len(tick.published) = 1

\* C2 (the velocities it promises): on a tick of any dispatch path that
\* reads a collision velocity scale of 0, every velocity published is 0.
C2_CollisionHaltZeroVelocity ==
    (Dispatched /\ tick.collision_scale = 0) => PublishedVelocities \subseteq {0}

\* C3 (where neither a collision halt nor a joint-bound halt takes the
\* status): on a Cartesian tick whose condition number is at or above
\* hard_stop_singularity_threshold while the motion heads toward the
\* singularity, every velocity published is 0 and status is
\* HALT_FOR_SINGULARITY.
C3_HardStopHalts ==
    (/\ tick.path = "cartesian" /\ tick.committed
     /\ tick.ini_condition >= hard_stop_singularity_threshold
     /\ tick.dot > 0
     /\ tick.collision_scale # 0
     /\ status # JOINT_BOUND)
    => (PublishedVelocities \subseteq {0} /\ status = HALT_FOR_SINGULARITY)

\* joint j sits within joint_limit_margin of a position bound and the
\* committed delta of the last run() pushes it further toward that bound
PushesIntoBound(j) ==
    \/ /\ tick.original[j] < Bounds(j).min_position + joint_limit_margin
       /\ tick.delta_theta[j] < 0
    \/ /\ tick.original[j] > Bounds(j).max_position - joint_limit_margin
       /\ tick.delta_theta[j] > 0

\* C4: a servo tick whose committed delta pushes a joint that is within
\* the margin of a position bound further toward it publishes the original
\* positions with zero velocities and leaves status JOINT_BOUND.
C4_JointBoundHalts ==
    (tick.committed /\ \E j \in Joints : PushesIntoBound(j))
    => /\ tick.published # <<>>
       /\ tick.published[1].points[1].positions = tick.original
       /\ tick.published[1].points[1].velocities = Fill(0)
       /\ status = JOINT_BOUND

\* C5: every velocity published for a velocity-bounded joint lies within
\* the joint's velocity bounds.
C5_VelocityWithinBounds ==
    \A m \in DOMAIN tick.published : \A k \in DOMAIN tick.published[m].points :
        \A j \in DOMAIN tick.published[m].points[k].velocities :
            Bounds(j).velocity_bounded =>
                /\ tick.published[m].points[k].velocities[j] >= Bounds(j).min_velocity
                /\ tick.published[m].points[k].velocities[j] <= Bounds(j).max_velocity

\* a jog above max_velocity, sent while the joint already moves at
\* max_velocity, goes out at max_velocity
C5_Witness ==
    /\ tick.path = "joint" /\ tick.committed /\ tick.published # <<>>
    /\ \E j \in Joints :
          /\ tick.prev_sent_velocity[j] = Bounds(j).max_velocity
          /\ tick.published[1].points[1].velocities[j] = Bounds(j).max_velocity

\* the larger magnitude of joint j's two acceleration bounds
AccelerationBound(j) ==
    IF Abs(Bounds(j).min_acceleration) > Abs(Bounds(j).max_acceleration)
    THEN Abs(Bounds(j).min_acceleration) ELSE Abs(Bounds(j).max_acceleration)

\* C6: on a servo tick the velocity published for an acceleration-bounded
\* joint differs from the velocity of the previously published command by
\* at most the acceleration bound times publish_period.
C6_AccelerationWithinBounds ==
    (tick.committed /\ tick.published # <<>>) =>
        \A j \in Joints :
            Bounds(j).acceleration_bounded =>
                Abs(tick.published[1].points[1].velocities[j]
                        - tick.prev_sent_velocity[j])
                    <= AccelerationBound(j) * publish_period

\* C7: a step that takes status from a warning back to NO_WARNING is no
\* run() and changes nothing else: only resetServoStatus clears a warning.
C7_OnlyResetClearsStatus ==
    [][(status # NO_WARNING /\ status' = NO_WARNING) =>
          /\ tick' = NoTick
          /\ UNCHANGED <<paused, wait_for_servo_commands, zero_velocity_count,
                         latest_twist_stamped, latest_nonzero_twist_stamped,
                         twist_command_age, latest_joint_cmd,
                         latest_nonzero_joint_cmd, joint_command_age,
                         collision_velocity_scale, prev_joint_velocity,
                         last_sent_command, position_filters,
                         control_dimensions, use_gazebo,
                   num_outgoing_halt_msgs_to_publish>>]_vars

\* a servo tick that ran its velocity scaling with nothing in the way and
\* still ends with the collision halt of an earlier tick as status
C7_Witness ==
    /\ tick.path \in {"cartesian", "joint"} /\ tick.committed
    /\ tick.collision_scale # 0
    /\ status = HALT_FOR_COLLISION

\* C8: after a run() that published nothing, every position filter is
\* reset to the measured joint position, so that its next output for that
\* position is that position.
C8_FiltersResetWithoutPublish ==
    (tick.path # "none" /\ tick.published = <<>>) =>
        /\ position_filters = resetLowPassFilters(tick.original)
        /\ \A j \in Joints :
              LowPassFilter_filter(position_filters[j], tick.original[j]).output
                  = tick.original[j]

\* a servo branch rejected its command, away from the last position sent
C8_Witness ==
    /\ tick.path \in {"cartesian", "joint"} /\ ~tick.usable
    /\ tick.published = <<>>
    /\ tick.original # last_sent_command.points[1].positions

----------------------------------------------------------------------------
(* The halt burst, for both kinds of num_outgoing_halt_msgs_to_publish:    *)
(* 0 (republish forever) and a positive count.                             *)

InitHalt == Constructed(FALSE) /\ num_outgoing_halt_msgs_to_publish \in {0, 1}

HaltTick == TickWith(PauseJointStates, PauseKinematics) /\ UNCHANGED history
HaltTwistReceived ==
    (\E msg \in PauseTwistMsgs : twistStampedCB(msg)) /\ UNCHANGED history
HaltJogReceived ==
    (\E msg \in JogMsgs : jointCmdCB(msg)) /\ UNCHANGED history

NextHalt ==
    \/ HaltTick
    \/ HaltTwistReceived
    \/ HaltJogReceived
    \/ PauseChanged
    \/ TimePasses

SpecHalt == InitHalt /\ [][NextHalt]_vars

\* C11: a run() that reaches the publish decision publishes nothing exactly
\* when have_nonzero_command is false, num_outgoing_halt_msgs_to_publish is
\* positive and the zero-velocity count it started with exceeds it; with 0
\* the halt point goes out on every such tick.
C11_SuppressedIffBurstOver ==
    [][(tick'.path \in {"cartesian", "joint", "idle"} /\ tick'.usable) =>
          ((tick'.published = <<>>) <=>
              (/\ ~tick'.have_nonzero_command
               /\ num_outgoing_halt_msgs_to_publish > 0
               /\ zero_velocity_count > num_outgoing_halt_msgs_to_publish))]_vars

\* a halt that was built and not published: the burst is over
C11_Witness ==
    /\ tick.path = "idle" /\ tick.halted /\ tick.published = <<>>
    /\ zero_velocity_count > num_outgoing_halt_msgs_to_publish

\* C12: a run() that finds paused_ or wait_for_servo_commands_ set publishes
\* nothing and leaves prev_joint_velocity_, last_sent_command_,
\* zero_velocity_count_ and status_ as they were; the filters are reset to
\* the measured joint positions.
C12_PausedTickOnlyResetsFilters ==
    [][tick'.path = "paused" =>
          /\ paused \/ wait_for_servo_commands
          /\ tick'.published = <<>>
          /\ UNCHANGED <<prev_joint_velocity, last_sent_command,
                         zero_velocity_count, status>>
          /\ position_filters' = resetLowPassFilters(tick'.original)]_vars

\* paused in mid-motion with a warning standing, the joint measured away
\* from the last position sent
C12_Witness ==
    /\ tick.path = "paused" /\ paused
    /\ prev_joint_velocity # Fill(0)
    /\ status # NO_WARNING
    /\ tick.original # last_sent_command.points[1].positions
    /\ position_filters = tick.original

\* the cached twist is nonzero and was stamped less than the timeout ago
FreshNonzeroTwist ==
    /\ latest_twist_stamped # <<>>
    /\ \E i \in TwistDims : latest_twist_stamped[1].twist[i] # "0"
    /\ twist_command_age < incoming_command_timeout

\* the cached joint jog is nonzero and was stamped less than the timeout ago
FreshNonzeroJog ==
    /\ latest_joint_cmd # <<>>
    /\ \E k \in DOMAIN latest_joint_cmd[1].velocities :
          latest_joint_cmd[1].velocities[k] # "0"
    /\ joint_command_age < incoming_command_timeout

\* C13: a run() that is neither paused nor waiting takes the Cartesian
\* path iff the twist is nonzero and fresh, else the joint path iff the
\* joint jog is nonzero and fresh, else the idle path.
C13_DispatchPriority ==
    tick.path \in {"cartesian", "joint", "idle"} =>
        tick.path = IF FreshNonzeroTwist THEN "cartesian"
                    ELSE IF FreshNonzeroJog THEN "joint"
                    ELSE "idle"

\* both commands nonzero and fresh: the twist wins
C13_Witness == tick.path = "cartesian" /\ FreshNonzeroTwist /\ FreshNonzeroJog

\* C14: with use_gazebo the trajectory a servo tick publishes has exactly
\* gazebo_redundant_message_count points, and every one of them, the second
\* included, carries the positions and velocities of the first.
C14_RedundantPointsAreCopies ==
    (use_gazebo /\ tick.committed /\ tick.published # <<>>) =>
        LET points == tick.published[1].points
        IN  /\ Len(points) = gazebo_redundant_message_count
            /\ \A k \in DOMAIN points :
                  /\ points[k].positions = points[1].positions
                  /\ points[k].velocities = points[1].velocities

----------------------------------------------------------------------------
(* Control dimensions switched on and off, near singularities and          *)
(* collisions and at a position bound.                                     *)

ControlKinematics ==
    [pinv_delta : [Joints -> {8}],
     ini_condition : {lower_singularity_threshold + 1,
                      hard_stop_singularity_threshold + 1},
     new_condition : {hard_stop_singularity_threshold + 2},
     u_dot : {1},
     probe : [Joints -> {0}]]

ControlTick == TickWith(LimitsJointStates, ControlKinematics) /\ UNCHANGED history
ControlDimensionsChanged ==
    /\ \E b \in BOOLEAN : changeControlDimensions(AllDimensions(b))
    /\ UNCHANGED history

NextControl ==
    \/ ControlTick
    \/ ControlDimensionsChanged
    \/ LimitsTwistReceived
    \/ CollisionScaleReceived
    \/ StatusReset
    \/ TimePasses

SpecControl == Init /\ [][NextControl]_vars

\* the Cartesian tick of this step ran with every control dimension off
UncontrolledTick ==
    /\ tick'.path = "cartesian" /\ tick'.committed
    /\ control_dimensions = AllDimensions(FALSE)

\* C15, as the code has it: with every control dimension off the committed
\* delta of a Cartesian tick is zero and no singularity status is set; the
\* status still becomes HALT_FOR_COLLISION when the collision scale is 0
\* and JOINT_BOUND when the position-limit check halts a moving joint.
C15_UncontrolledTwistCommitsZero ==
    [][UncontrolledTick =>
          /\ tick'.delta_theta = Fill(0)
          /\ \/ status' = status
             \/ collision_velocity_scale = 0 /\ status' = HALT_FOR_COLLISION
             \/ /\ \E j \in Joints : tick'.kin_velocity[j] # 0
                /\ status' = JOINT_BOUND]_vars

\* past the hard-stop threshold, heading for the singularity, and the
\* status still clear
C15_Witness ==
    /\ tick.path = "cartesian" /\ tick.committed
    /\ control_dimensions = AllDimensions(FALSE)
    /\ tick.ini_condition > hard_stop_singularity_threshold
    /\ tick.delta_theta = Fill(0)
    /\ status = NO_WARNING

\* C15 as stated (for joints measured at rest): with every control
\* dimension off the committed delta is zero and a status of NO_WARNING
\* stays NO_WARNING, whatever the collision scale.
C15_UncontrolledTwistKeepsNoWarning ==
    [][(/\ UncontrolledTick
        /\ tick'.kin_velocity = Fill(0)
        /\ status = NO_WARNING) =>
          (tick'.delta_theta = Fill(0) /\ status' = NO_WARNING)]_vars

\* the scaled jog of the cached joint command, multiplied by the collision
\* scale (the singularity scale of a joint tick is 1)
ScaledJog ==
    [j \in Joints |->
        ScaleDelta(collision_velocity_scale, Scale(1, 1),
                   scaleJointCommand(latest_joint_cmd[1])[j])]

\* C16 (on joint ticks, where the raw delta is the scaled jog; no collision
\* halt standing): the delta a servo tick commits is the raw delta
\* multiplied by the collision and singularity scales and then clipped to
\* the acceleration and velocity limits.
C16_ScaledThenClipped ==
    [][(tick'.path = "joint" /\ tick'.committed /\ status # HALT_FOR_COLLISION) =>
          tick'.delta_theta = enforceSRDFAccelVelLimits(ScaledJog, prev_joint_velocity)]_vars

\* C17: prev_joint_velocity_ changes only in a run() whose servo path
\* commits a delta, and after every such run() it is that delta divided by
\* publish_period; idle, halted, suppressed, paused and rejected ticks and
\* every callback leave it alone.
C17_VelocityKeptUnlessCommitted ==
    [][/\ tick'.committed =>
            prev_joint_velocity' = calculateJointVelocities(tick'.delta_theta)
       /\ ~tick'.committed => UNCHANGED prev_joint_velocity]_vars

\* a halt was built and published after motion, and the velocity kept for
\* the limits is still that of the last servo tick
C17_Witness ==
    /\ tick.path = "idle" /\ tick.halted /\ tick.published # <<>>
    /\ tick.published[1].points[1].velocities = Fill(0)
    /\ prev_joint_velocity # Fill(0)

----------------------------------------------------------------------------
(* The threads.  run() is taken apart into the steps at which another      *)
(* thread can see or change what it works on: the wait for a joint state,  *)
(* the block under latest_state_mutex_, the write of the cached transform  *)
(* (a 4x4 matrix, written in more than one store: here its two ends, one   *)
(* after the other) and the rest of run().  A subscriber callback holds    *)
(* the mutex from its first statement to its last, so it is one step that  *)
(* needs the mutex free; getCommandFrameTransform copies the matrix while  *)
(* it holds the mutex, one end after the other.                            *)

commands ==
    <<latest_twist_stamped, latest_nonzero_twist_stamped, twist_command_age,
      latest_joint_cmd, latest_nonzero_joint_cmd, joint_command_age>>

servo ==
    <<status, paused, wait_for_servo_commands, zero_velocity_count,
      collision_velocity_scale, prev_joint_velocity, last_sent_command,
      position_filters, control_dimensions, use_gazebo,
      num_outgoing_halt_msgs_to_publish, drift_dimensions>>

planningFrameCB(data) ==
    /\ latest_state_mutex = "free"
    /\ latest_planning_frame' = data
    /\ tick' = NoTick
    /\ UNCHANGED <<commands, servo, latest_robot_link_command_frame,
                   tf_moveit_to_robot_cmd_frame, latest_state_mutex,
                   stop_requested, cycle, reader>>

robotLinkCommandFrameCB(data) ==
    /\ latest_state_mutex = "free"
    /\ latest_robot_link_command_frame' = data
    /\ tick' = NoTick
    /\ UNCHANGED <<commands, servo, latest_planning_frame,
                   tf_moveit_to_robot_cmd_frame, latest_state_mutex,
                   stop_requested, cycle, reader>>

\* start() re-arms the timer after a stop()
start ==
    /\ stop_requested
    /\ stop_requested' = FALSE
    /\ tick' = NoTick
    /\ UNCHANGED <<commands, servo, latest_planning_frame,
                   latest_robot_link_command_frame,
                   tf_moveit_to_robot_cmd_frame, latest_state_mutex, cycle,
                   reader>>

\* stop() sets the flag and stops the timer
stop ==
    /\ ~stop_requested
    /\ stop_requested' = TRUE
    /\ tick' = NoTick
    /\ UNCHANGED <<commands, servo, latest_planning_frame,
                   latest_robot_link_command_frame,
                   tf_moveit_to_robot_cmd_frame, latest_state_mutex, cycle,
                   reader>>

\* the timer, not stopped, fires: run() is entered and reaches its poll loop
runEntered ==
    /\ cycle.pc = "idle"
    /\ ~stop_requested
    /\ cycle' = [cycle EXCEPT !.pc = "poll", !.locks = 0]
    /\ tick' = NoTick
    /\ UNCHANGED <<commands, servo, latest_planning_frame,
                   latest_robot_link_command_frame,
                   tf_moveit_to_robot_cmd_frame, latest_state_mutex,
                   stop_requested, reader>>

\* the poll loop: updateJoints() fails and stop_requested_ is set, run()
\* returns.  (When the flag is clear the loop sleeps and tries again.)
runGivesUp ==
    /\ cycle.pc = "poll"
    /\ stop_requested
    /\ cycle' = [cycle EXCEPT !.pc = "idle"]
    /\ tick' = NoTick
    /\ UNCHANGED <<commands, servo, latest_planning_frame,
                   latest_robot_link_command_frame,
                   tf_moveit_to_robot_cmd_frame, latest_state_mutex,
                   stop_requested, reader>>

\* the poll loop: updateJoints() succeeds, with a joint state from JS
runUpdatesJoints(JS) ==
    /\ cycle.pc = "poll"
    /\ \E js \in JS : cycle' = [cycle EXCEPT !.pc = "snapshot", !.js = <<js>>,
                                              !.internal = js.position]
    /\ tick' = NoTick
    /\ UNCHANGED <<commands, servo, latest_planning_frame,
                   latest_robot_link_command_frame,
                   tf_moveit_to_robot_cmd_frame, latest_state_mutex,
                   stop_requested, reader>>

\* the block under latest_state_mutex_: the caches are copied to the members
\* the rest of run() works on
runTakesSnapshot ==
    /\ cycle.pc = "snapshot"
    /\ latest_state_mutex = "free"
    /\ cycle' = [cycle EXCEPT !.pc = "transform_from",
                              !.c = <<Snapshot(Members)>>,
                              !.locks = @ + 1]
    /\ tick' = NoTick
    /\ UNCHANGED <<commands, servo, latest_planning_frame,
                   latest_robot_link_command_frame,
                   tf_moveit_to_robot_cmd_frame, latest_state_mutex,
                   stop_requested, reader>>

\* tf_moveit_to_robot_cmd_frame_ = calculateCommandFrameTransform(...), its
\* first store
runWritesTransformFrom ==
    /\ cycle.pc = "transform_from"
    /\ tf_moveit_to_robot_cmd_frame' =
           [tf_moveit_to_robot_cmd_frame EXCEPT
              !.from = calculateCommandFrameTransform(
                           cycle.c[1].planning_frame,
                           cycle.c[1].robot_link_command_frame).from]
    /\ cycle' = [cycle EXCEPT !.pc = "transform_to"]
    /\ tick' = NoTick
    /\ UNCHANGED <<commands, servo, latest_planning_frame,
                   latest_robot_link_command_frame, latest_state_mutex,
                   stop_requested, reader>>

\* ... and its last store
runWritesTransformTo ==
    /\ cycle.pc = "transform_to"
    /\ tf_moveit_to_robot_cmd_frame' =
           [tf_moveit_to_robot_cmd_frame EXCEPT
              !.to = calculateCommandFrameTransform(
                         cycle.c[1].planning_frame,
                         cycle.c[1].robot_link_command_frame).to]
    /\ cycle' = [cycle EXCEPT !.pc = "calc"]
    /\ tick' = NoTick
    /\ UNCHANGED <<commands, servo, latest_planning_frame,
                   latest_robot_link_command_frame, latest_state_mutex,
                   stop_requested, reader>>

\* a run() that reads the caches again where it should read its copies
CommandsInUse_Reread(taken, s) == Snapshot(s)

\* the command values the rest of run() works on: the members written under
\* the mutex (twist_stamped_cmd_, have_nonzero_twist_stamped_, ...)
CommandsInUse(taken, s) == taken

\* the rest of run(), on the snapshot taken, with kinematics from KIN
runCalculates(KIN) ==
    /\ cycle.pc = "calc"
    /\ \E c \in {CommandsInUse(cycle.c[1], Members)} :
         \E kin \in IF Dispatch(Members, c) = "cartesian"
                    THEN KIN ELSE {NoKinematics} :
           \E r \in {run(Members, c, cycle.js[1], kin)} :
                /\ status' = r.state.status
                /\ wait_for_servo_commands' = r.state.wait_for_servo_commands
                /\ zero_velocity_count' = r.state.zero_velocity_count
                /\ prev_joint_velocity' = r.state.prev_joint_velocity
                /\ last_sent_command' = r.state.last_sent_command
                /\ position_filters' = r.state.position_filters
                /\ tick' = r.tick
    /\ cycle' = [cycle EXCEPT !.pc = "idle", !.js = <<>>, !.measured = <<>>]
    /\ UNCHANGED <<commands, paused, collision_velocity_scale,
                   control_dimensions, use_gazebo,
                   num_outgoing_halt_msgs_to_publish, latest_planning_frame,
                   latest_robot_link_command_frame,
                   tf_moveit_to_robot_cmd_frame, latest_state_mutex,
                   stop_requested, reader, drift_dimensions>>

\* getCommandFrameTransform: the lock, then the copy of the matrix, the
\* unlock after its last store
getCommandFrameTransformLocks ==
    /\ reader.pc = "out"
    /\ latest_state_mutex = "free"
    /\ latest_state_mutex' = "reader"
    /\ reader' = [pc |-> "copy_from", transform |-> <<>>]
    /\ tick' = NoTick
    /\ UNCHANGED <<commands, servo, latest_planning_frame,
                   latest_robot_link_command_frame,
                   tf_moveit_to_robot_cmd_frame, stop_requested, cycle>>

getCommandFrameTransformCopiesFrom ==
    /\ reader.pc = "copy_from"
    /\ reader' = [pc |-> "copy_to",
                  transform |-> <<[ZeroTransform EXCEPT
                                     !.from = tf_moveit_to_robot_cmd_frame.from]>>]
    /\ tick' = NoTick
    /\ UNCHANGED <<commands, servo, latest_planning_frame,
                   latest_robot_link_command_frame,
                   tf_moveit_to_robot_cmd_frame, latest_state_mutex,
                   stop_requested, cycle>>

getCommandFrameTransformCopiesTo ==
    /\ reader.pc = "copy_to"
    /\ reader' = [pc |-> "out",
                  transform |-> <<[reader.transform[1] EXCEPT
                                     !.to = tf_moveit_to_robot_cmd_frame.to]>>]
    /\ latest_state_mutex' = "free"
    /\ tick' = NoTick
    /\ UNCHANGED <<commands, servo, latest_planning_frame,
                   latest_robot_link_command_frame,
                   tf_moveit_to_robot_cmd_frame, stop_requested, cycle>>

\* a valid jog, one joint state well inside the bounds, and two names for
\* each frame; the twists are the stamped zero and valid twists
ThreadsJogMsgs == [velocities : [Joints -> {"4"}], stamp_is_zero : {FALSE}]
ThreadsJointStates == {[position |-> Fill(4), velocity |-> Fill(0)]}
PlanningFrames == {planning_frame, "world"}
CommandFrames == {robot_link_command_frame, "flange"}

ThreadsTwistReceived ==
    /\ latest_state_mutex = "free"
    /\ \E msg \in PauseTwistMsgs : twistStampedCB(msg)
    /\ UNCHANGED history
ThreadsJogReceived ==
    /\ latest_state_mutex = "free"
    /\ \E msg \in ThreadsJogMsgs : jointCmdCB(msg)
    /\ UNCHANGED history
PlanningFrameReceived ==
    (\E data \in PlanningFrames : planningFrameCB(data)) /\ UNCHANGED history
CommandFrameReceived ==
    (\E data \in CommandFrames : robotLinkCommandFrameCB(data)) /\ UNCHANGED history
Started == start /\ UNCHANGED history
Stopped == stop /\ UNCHANGED history
RunEntered == runEntered /\ UNCHANGED history
RunGivesUp == runGivesUp /\ UNCHANGED history
RunUpdatesJoints == runUpdatesJoints(ThreadsJointStates) /\ UNCHANGED history
RunTakesSnapshot == runTakesSnapshot /\ UNCHANGED history
RunWritesTransformFrom == runWritesTransformFrom /\ UNCHANGED history
RunWritesTransformTo == runWritesTransformTo /\ UNCHANGED history
RunCalculates == runCalculates(PauseKinematics) /\ UNCHANGED history
TransformLocked == getCommandFrameTransformLocks /\ UNCHANGED history
TransformCopiedFrom == getCommandFrameTransformCopiesFrom /\ UNCHANGED history
TransformCopiedTo == getCommandFrameTransformCopiesTo /\ UNCHANGED history

\* the control thread against the command and frame callbacks, stop() and
\* start(), and time passing
NextThreads ==
    \/ RunEntered
    \/ RunGivesUp
    \/ RunUpdatesJoints
    \/ RunTakesSnapshot
    \/ RunWritesTransformFrom
    \/ RunWritesTransformTo
    \/ RunCalculates
    \/ ThreadsTwistReceived
    \/ ThreadsJogReceived
    \/ PlanningFrameReceived
    \/ Stopped
    \/ Started
    \/ TimePasses

SpecThreads == Init /\ [][NextThreads]_vars

\* the control thread against the frame callbacks and a caller of
\* getCommandFrameTransform
NextTransform ==
    \/ RunEntered
    \/ RunUpdatesJoints
    \/ RunTakesSnapshot
    \/ RunWritesTransformFrom
    \/ RunWritesTransformTo
    \/ RunCalculates
    \/ PlanningFrameReceived
    \/ CommandFrameReceived
    \/ TransformLocked
    \/ TransformCopiedFrom
    \/ TransformCopiedTo

SpecTransform == Init /\ [][NextTransform]_vars

\* C18: the snapshot step copies the cached command, nonzero flags,
\* staleness and frame names as they are at that step; no step between the
\* snapshot and the end of run() changes the copies, whatever callback runs;
\* the transform is written for the copied frame names; and the rest of
\* run() takes its branch and its nonzero-command flag from the copies, not
\* from the cache as a later callback left it.
C18_TickUsesItsSnapshot ==
    [][/\ (cycle.pc = "snapshot" /\ cycle'.pc = "transform_from") =>
            /\ latest_twist_stamped # <<>> =>
                   cycle'.c[1].twist_stamped_cmd = latest_twist_stamped[1]
            /\ latest_joint_cmd # <<>> =>
                   cycle'.c[1].joint_servo_cmd = latest_joint_cmd[1]
            /\ cycle'.c[1].have_nonzero_twist_stamped = latest_nonzero_twist_stamped
            /\ cycle'.c[1].have_nonzero_joint_command = latest_nonzero_joint_cmd
            /\ cycle'.c[1].twist_command_is_stale =
                   (twist_command_age >= incoming_command_timeout)
            /\ cycle'.c[1].joint_command_is_stale =
                   (joint_command_age >= incoming_command_timeout)
            /\ cycle'.c[1].planning_frame = latest_planning_frame
            /\ cycle'.c[1].robot_link_command_frame = latest_robot_link_command_frame
       /\ cycle.pc \in {"transform_from", "transform_to", "calc"} =>
            cycle'.c = cycle.c
       /\ (cycle.pc = "transform_to" /\ cycle'.pc = "calc") =>
            /\ tf_moveit_to_robot_cmd_frame'.from = cycle.c[1].planning_frame
            /\ tf_moveit_to_robot_cmd_frame'.to = cycle.c[1].robot_link_command_frame
       /\ (cycle.pc = "calc" /\ cycle'.pc = "idle") =>
            /\ tick'.have_nonzero_command =
                   (cycle.c[1].have_nonzero_twist_stamped
                       \/ cycle.c[1].have_nonzero_joint_command)
            /\ tick'.path = "cartesian" <=>
                   /\ ~paused /\ ~wait_for_servo_commands
                   /\ cycle.c[1].have_nonzero_twist_stamped
                   /\ ~cycle.c[1].twist_command_is_stale
            /\ tick'.path = "joint" <=>
                   /\ ~paused /\ ~wait_for_servo_commands
                   /\ ~(cycle.c[1].have_nonzero_twist_stamped
                           /\ ~cycle.c[1].twist_command_is_stale)
                   /\ cycle.c[1].have_nonzero_joint_command
                   /\ ~cycle.c[1].joint_command_is_stale
      ]_vars

\* a run() has served the twist it copied although a zero twist and another
\* planning frame have replaced what it copied before it got to its
\* calculations
C18_Witness ==
    /\ tick.path = "cartesian"
    /\ tick.published # <<>>
    /\ ~latest_nonzero_twist_stamped
    /\ latest_planning_frame # cycle.c[1].planning_frame

\* C19: getCommandFrameTransform never runs concurrently with a write of the
\* cached transform: no caller is inside its locked copy while the control
\* thread is between the first and the last store of
\* tf_moveit_to_robot_cmd_frame_.  (The claim also says why: the control
\* thread would hold the mutex for the write, its second lock of the cycle.
\* This is the consequence alone, so that a violation shows a caller and the
\* write side by side.)
C19_NoReadDuringTransformWrite ==
    ~(reader.pc \in {"copy_from", "copy_to"} /\ cycle.pc = "transform_to")

\* C20: from stop() until start() is called again no run() publishes an
\* outgoing command: whenever stop_requested_ is set, the step just taken
\* published nothing.
C20_NoOutputAfterStop ==
    stop_requested => tick.published = <<>>

----------------------------------------------------------------------------
\* C21: a run() that takes the idle branch publishes only zero velocities,
\* whatever velocities the last sent command carried.
C21_IdleVelocitiesZero ==
    tick.path = "idle" => PublishedVelocities \subseteq {0}

----------------------------------------------------------------------------
(* Staleness.  twist_stamp_log keeps, beside the model, the time since     *)
(* the latest twist was received (any) and since the latest twist with a   *)
(* nonzero header stamp was received (stamped), both capped at the         *)
(* timeout.  A stamped message carries the time it is sent.                *)

StaleTwistMsgs == [twist : {ZeroTwist, OkTwist}, stamp_is_zero : BOOLEAN]

StaleTick == TickWith(PauseJointStates, PauseKinematics) /\ UNCHANGED history
StaleTwistReceived ==
    /\ \E msg \in StaleTwistMsgs :
         /\ twistStampedCB(msg)
         /\ twist_stamp_log' =
                [any |-> 0,
                 stamped |-> IF msg.stamp_is_zero
                             THEN twist_stamp_log.stamped ELSE 0]
    /\ UNCHANGED <<pause_log, halt_run_log, collision_halt_log>>
StaleJogReceived == (\E msg \in ThreadsJogMsgs : jointCmdCB(msg)) /\ UNCHANGED history
StaleTimePasses ==
    /\ Elapse
    /\ twist_stamp_log' =
           [k \in {"any", "stamped"} |->
               IF twist_stamp_log[k] < incoming_command_timeout
               THEN twist_stamp_log[k] + 1 ELSE twist_stamp_log[k]]
    /\ UNCHANGED <<pause_log, halt_run_log, collision_halt_log>>

NextStale ==
    \/ StaleTick
    \/ StaleTwistReceived
    \/ StaleJogReceived
    \/ PauseChanged
    \/ StaleTimePasses

SpecStale == Init /\ [][NextStale]_vars

----------------------------------------------------------------------------
\* C23: on a Cartesian run() whose dot product is not zero, the singular
\* direction was flipped (the dot product used is minus the one of the
\* last column of U) exactly when the probe's condition number is strictly
\* greater than the Jacobian's.
C23_FlipWhenProbeIsWorse ==
    (tick.path = "cartesian" /\ tick.usable /\ tick.dot # 0)
    => (tick.dot = -tick.u_dot <=> tick.new_condition > tick.ini_condition)

----------------------------------------------------------------------------
(* The singularity step: condition numbers from below the lower threshold  *)
(* to above the hard stop, probes that make the condition better and       *)
(* worse, and commanded velocities along, across and against the last     *)
(* column of U.                                                            *)

SingularityKinematics ==
    [pinv_delta : [Joints -> {8}],
     ini_condition : lower_singularity_threshold - 1 .. hard_stop_singularity_threshold + 1,
     new_condition : {1, hard_stop_singularity_threshold + 2},
     u_dot : {-1, 0, 1},
     probe : [Joints -> {0}]]

SingularityTick == TickWith(PauseJointStates, SingularityKinematics) /\ UNCHANGED history

NextSingularity ==
    \/ SingularityTick
    \/ LimitsTwistReceived
    \/ CollisionScaleReceived
    \/ StatusReset

SpecSingularity == Init /\ [][NextSingularity]_vars

\* the singularity scale of the last run(), as a fraction, equals
\* 1 - (k - lower) / (hard_stop - lower) for its condition number k
OnRamp ==
    tick.singularity_scale.num
        * (hard_stop_singularity_threshold - lower_singularity_threshold)
    = tick.singularity_scale.den
        * ((hard_stop_singularity_threshold - lower_singularity_threshold)
              - (tick.ini_condition - lower_singularity_threshold))

\* C24: on a Cartesian run() whose dot product is positive and whose
\* condition number lies strictly between the two thresholds, the
\* singularity scale is 1 - (k - lower) / (hard_stop - lower), strictly
\* between 0 and 1 (1/2 at the midpoint), and status_ becomes
\* DECELERATE_FOR_SINGULARITY; when the dot product is not positive or the
\* condition number is at most the lower threshold, the scale is 1 and
\* status_ is what it was.  (The status is compared where neither a
\* collision halt nor a joint-bound halt writes it after the singularity
\* step.)
C24_RampBetweenThresholds ==
    [][(tick'.path = "cartesian" /\ tick'.committed) =>
          /\ (/\ tick'.dot > 0
              /\ tick'.ini_condition > lower_singularity_threshold
              /\ tick'.ini_condition < hard_stop_singularity_threshold) =>
                /\ OnRamp'
                /\ 0 < tick'.singularity_scale.num
                /\ tick'.singularity_scale.num < tick'.singularity_scale.den
                /\ 2 * tick'.ini_condition
                      = lower_singularity_threshold + hard_stop_singularity_threshold
                   => 2 * tick'.singularity_scale.num = tick'.singularity_scale.den
                /\ (tick'.collision_scale # 0 /\ status' # JOINT_BOUND)
                   => status' = DECELERATE_FOR_SINGULARITY
          /\ (\/ tick'.dot <= 0
              \/ tick'.ini_condition <= lower_singularity_threshold) =>
                /\ tick'.singularity_scale.num = tick'.singularity_scale.den
                /\ (tick'.collision_scale # 0 /\ status' # JOINT_BOUND)
                   => status' = status
      ]_vars

\* a run() at the midpoint of the ramp, heading for the singularity, had its
\* delta halved and set the status
C24_Witness ==
    /\ tick.path = "cartesian" /\ tick.committed
    /\ tick.dot > 0
    /\ 2 * tick.ini_condition
          = lower_singularity_threshold + hard_stop_singularity_threshold
    /\ 2 * tick.singularity_scale.num = tick.singularity_scale.den
    /\ status = DECELERATE_FOR_SINGULARITY
    /\ tick.published # <<>>

----------------------------------------------------------------------------
(* The clips of enforceSRDFAccelVelLimits: raw joint deltas large, small   *)
(* and zero, of both signs, against every previous velocity the servo can  *)
(* have been left with.                                                    *)

ClipKinematics ==
    [pinv_delta : [Joints -> {-8, -2, 0, 2, 8}],
     ini_condition : {lower_singularity_threshold},
     new_condition : {hard_stop_singularity_threshold + 2},
     u_dot : {1},
     probe : [Joints -> {0}]]

ClipTick == TickWith(PauseJointStates, ClipKinematics) /\ UNCHANGED history

NextClip ==
    \/ ClipTick
    \/ LimitsTwistReceived
    \/ LimitsJogReceived

SpecClip == Init /\ [][NextClip]_vars

\* C25 (as amended): on a run() that commits a delta, for every joint the
\* delta after the acceleration and velocity clips is no larger in magnitude
\* than the raw delta and a zero raw delta stays zero; the sign is the raw
\* delta's unless the previous velocity has the opposite sign to the raw
\* delta, in which case the clipped delta may have the sign of the previous
\* velocity.
C25_ClipsShrink ==
    [][tick'.committed =>
          \A j \in Joints :
              /\ Abs(tick'.clipped_delta[j]) <= Abs(tick'.raw_delta[j])
              /\ tick'.raw_delta[j] = 0 => tick'.clipped_delta[j] = 0
              /\ tick'.clipped_delta[j] * tick'.raw_delta[j] < 0 =>
                     /\ prev_joint_velocity[j] * tick'.raw_delta[j] < 0
                     /\ prev_joint_velocity[j] * tick'.clipped_delta[j] > 0
      ]_vars

\* a raw delta against the previous velocity came out of the clips smaller
\* and with its sign reversed
C25_Witness ==
    /\ tick.committed
    /\ \E j \in Joints :
          /\ tick.clipped_delta[j] * tick.raw_delta[j] < 0
          /\ Abs(tick.clipped_delta[j]) < Abs(tick.raw_delta[j])

\* C25 (as stated): the clipped delta is no larger in magnitude than the raw
\* delta, never of the opposite sign, and zero when the raw delta is zero.
C25_ClipsKeepSign ==
    tick.committed =>
        \A j \in Joints :
            /\ Abs(tick.clipped_delta[j]) <= Abs(tick.raw_delta[j])
            /\ tick.clipped_delta[j] * tick.raw_delta[j] >= 0
            /\ tick.raw_delta[j] = 0 => tick.clipped_delta[j] = 0

----------------------------------------------------------------------------
(* Drift dimensions: every choice of the six flags, under a twist whose    *)
(* neighbouring components differ.                                         *)

DriftTwistMsgs ==
    {[twist |-> <<"1", "0", "-1", "1", "0", "-1">>, stamp_is_zero |-> FALSE],
     [twist |-> <<"0", "1", "1", "-1", "-1", "0">>, stamp_is_zero |-> FALSE]}

DriftTick == TickWith(PauseJointStates, PauseKinematics) /\ UNCHANGED history
DriftTwistReceived ==
    (\E msg \in DriftTwistMsgs : twistStampedCB(msg)) /\ UNCHANGED history
DriftDimensionsChanged ==
    (\E req \in [TwistDims -> BOOLEAN] : changeDriftDimensions(req))
    /\ UNCHANGED history

NextDrift ==
    \/ DriftTick
    \/ DriftTwistReceived
    \/ DriftDimensionsChanged

SpecDrift == Init /\ [][NextDrift]_vars

\* the dimensions allowed to drift
Drifting == {i \in TwistDims : drift_dimensions[i]}

\* C26: after a Cartesian run(), the reduced Jacobian and the reduced
\* delta_x have the same number of rows, max(1, 6 - number of drift flags
\* set); the rows kept are, in their original order, the rows whose flag is
\* clear (the first row alone when all six are set); and every entry of the
\* reduced delta_x is the entry the full delta_x had at the row it is
\* paired with.
C26_DriftRowsRemoved ==
    (tick.path = "cartesian" /\ tick.committed) =>
        LET rows == tick.reduced.jacobian
            kept == IF Drifting = TwistDims THEN {1} ELSE TwistDims \ Drifting
        IN  /\ Len(rows) = Len(tick.reduced.delta_x)
            /\ Len(rows) = IF Cardinality(Drifting) = 6 THEN 1
                           ELSE 6 - Cardinality(Drifting)
            /\ {rows[k] : k \in 1..Len(rows)} = kept
            /\ \A k \in 1..Len(rows) - 1 : rows[k] < rows[k + 1]
            /\ \A k \in 1..Len(rows) : tick.reduced.delta_x[k] = tick.delta_x[rows[k]]

\* rows from the middle and the end were removed and a later row was kept
C26_Witness ==
    /\ tick.path = "cartesian" /\ tick.committed
    /\ drift_dimensions = <<FALSE, TRUE, TRUE, FALSE, FALSE, TRUE>>
    /\ tick.reduced.jacobian = <<1, 4, 5>>
    /\ tick.reduced.delta_x = <<2, 2, 0>>

----------------------------------------------------------------------------
\* C27: a run() that builds the sudden halt publishes a trajectory of
\* exactly one point, with the measured positions where positions are
\* published and all velocities 0 where velocities are published.
C27_HaltIsOnePoint ==
    (tick.halted /\ tick.published # <<>>) =>
        LET points == tick.published[1].points
        IN  /\ Len(points) = 1
            /\ publish_joint_positions => points[1].positions = tick.original
            /\ publish_joint_velocities => points[1].velocities = Fill(0)

----------------------------------------------------------------------------
(* The joint-state poll.  A measurement is a sensor_msgs::JointState: the  *)
(* names it lists and a position for each.                                 *)

\* internal_joint_state_.name: the active joints, in the internal order
internal_joint_state_name == [j \in Joints |-> "joint_1"]

\* joint_state_name_map_.at(name): the internal index, 0 for out_of_range
joint_state_name_map(name) ==
    IF \E j \in Joints : internal_joint_state_name[j] = name
    THEN CHOOSE j \in Joints : internal_joint_state_name[j] = name
    ELSE 0

\* the loop of updateJoints over the names m .. of the message
RECURSIVE StoreJoints(_, _, _)
StoreJoints(position, msg, m) ==
    IF m > Len(msg.name) THEN position
    ELSE LET c == joint_state_name_map(msg.name[m])
         IN  StoreJoints(IF c = 0 THEN position
                         ELSE [position EXCEPT ![c] = msg.position[m]],
                         msg, m + 1)

\* updateJoints: whether it returned true, and internal_joint_state_ after
updateJoints(position, msg) ==
    IF Len(msg.name) < NumJoints
    THEN [ok |-> FALSE, position |-> position]
    ELSE [ok |-> TRUE, position |-> StoreJoints(position, msg, 1)]

\* the poll loop of run(), one pass: updateJoints() on a message from MSGS;
\* on true run() goes on, on false it returns if stop_requested_ is set and
\* sleeps and tries again if not
runPolls(MSGS) ==
    /\ cycle.pc = "poll"
    /\ \E msg \in MSGS :
         LET u == updateJoints(cycle.internal, msg)
         IN  cycle' =
                 IF u.ok
                 THEN [cycle EXCEPT !.pc = "snapshot", !.measured = <<msg>>,
                                    !.internal = u.position,
                                    !.js = <<[position |-> u.position,
                                              velocity |-> Fill(0)]>>]
                 ELSE IF stop_requested
                 THEN [cycle EXCEPT !.pc = "idle", !.measured = <<msg>>]
                 ELSE [cycle EXCEPT !.measured = <<msg>>]
    /\ tick' = NoTick
    /\ UNCHANGED <<commands, servo, latest_planning_frame,
                   latest_robot_link_command_frame,
                   tf_moveit_to_robot_cmd_frame, latest_state_mutex,
                   stop_requested, reader>>

\* messages with no joint, the active joint, another joint, and two joints
\* with and without the active one
JointStateMsgs ==
    UNION {[name : {names}, position : [1..Len(names) -> {4, 6}]] :
              names \in {<<>>, <<"joint_1">>, <<"gripper">>,
                         <<"gripper", "joint_1">>, <<"gripper", "finger">>}}

RunPolls == runPolls(JointStateMsgs) /\ UNCHANGED history

NextJoints ==
    \/ RunEntered
    \/ RunPolls
    \/ RunTakesSnapshot
    \/ RunWritesTransformFrom
    \/ RunWritesTransformTo
    \/ RunCalculates
    \/ ThreadsTwistReceived
    \/ Stopped
    \/ Started

SpecJoints == Init /\ [][NextJoints]_vars

\* C28: run() gets past its joint-state poll only on a measurement that
\* lists every active joint.
C28_PollWaitsForEveryJoint ==
    cycle.pc = "snapshot" =>
        \A j \in Joints :
            \E m \in 1..Len(cycle.measured[1].name) :
                cycle.measured[1].name[m] = internal_joint_state_name[j]

----------------------------------------------------------------------------
(* Malformed commands: twists with a NaN and with a component of 2, jogs   *)
(* with a NaN, between well-formed ones, with the status and the velocity  *)
(* of an earlier tick to keep.                                             *)

MalformedTwistMsgs ==
    [twist : {ZeroTwist, OkTwist, NaNTwist, [ZeroTwist EXCEPT ![4] = "2"]},
     stamp_is_zero : {FALSE}]

MalformedJogMsgs == [velocities : [Joints -> {"4", "NaN"}], stamp_is_zero : {FALSE}]

MalformedTick == TickWith(PauseJointStates, PauseKinematics) /\ UNCHANGED history
MalformedTwistReceived ==
    (\E msg \in MalformedTwistMsgs : twistStampedCB(msg)) /\ UNCHANGED history
MalformedJogReceived ==
    (\E msg \in MalformedJogMsgs : jointCmdCB(msg)) /\ UNCHANGED history

NextMalformed ==
    \/ MalformedTick
    \/ MalformedTwistReceived
    \/ MalformedJogReceived
    \/ CollisionScaleReceived
    \/ TimePasses

SpecMalformed == Init /\ [][NextMalformed]_vars

\* the cached twist has a NaN or a component of magnitude above 1
MalformedTwist ==
    /\ latest_twist_stamped # <<>>
    /\ \E i \in TwistDims :
          \/ latest_twist_stamped[1].twist[i] = "NaN"
          \/ Abs(Num(latest_twist_stamped[1].twist[i])) > 1

\* the cached jog has a NaN
MalformedJog ==
    /\ latest_joint_cmd # <<>>
    /\ \E k \in 1..Len(latest_joint_cmd[1].velocities) :
          latest_joint_cmd[1].velocities[k] = "NaN"

\* C29: a run() that takes the Cartesian path on a twist with a NaN or a
\* component of magnitude above 1, or the joint path on a jog with a NaN,
\* publishes nothing, commits no delta, and leaves prev_joint_velocity_,
\* last_sent_command_, status_ and zero_velocity_count_ (and everything but
\* the position filters) as they were.
C29_MalformedCommandChangesNothing ==
    [][(\/ tick'.path = "cartesian" /\ MalformedTwist
        \/ tick'.path = "joint" /\ MalformedJog) =>
          /\ tick'.published = <<>>
          /\ ~tick'.usable /\ ~tick'.committed
          /\ tick'.delta_theta = Fill(0)
          /\ UNCHANGED <<prev_joint_velocity, last_sent_command, status,
                         zero_velocity_count, wait_for_servo_commands, paused,
                         commands, collision_velocity_scale>>
      ]_vars

\* an out-of-range twist was rejected while the servo held a velocity and
\* a sent command from the tick before
C29_Witness ==
    /\ tick.path = "cartesian" /\ ~tick.usable
    /\ latest_twist_stamped[1].twist[4] = "2"
    /\ prev_joint_velocity # Fill(0)
    /\ last_sent_command.points[1].velocities # Fill(0)

\* ---------------------------------------------------------------------
\* C30: the wait-for-first-command flag

\* C30: once wait_for_servo_commands_ has been cleared, no later step
\* (in particular no tick run while paused with zero-stamped commands
\* cached) sets it back to true
C30_WaitFlagMonotone ==
    [][~wait_for_servo_commands => ~wait_for_servo_commands']_vars

----------------------------------------------------------------------------
(* C31: the singularity probe and kinematic_state_.  Kinematics whose      *)
(* probe moves the joint by 0 or by joint_limit_margin, with joints        *)
(* measured inside the margin of min_position and well inside the bounds.  *)

ProbeKinematics ==
    [pinv_delta : [Joints -> {-8, 8}],
     ini_condition : {lower_singularity_threshold},
     new_condition : {hard_stop_singularity_threshold + 2},
     u_dot : {1},
     probe : [Joints -> {0, joint_limit_margin}]]

ProbeTick == TickWith(JointStates, ProbeKinematics) /\ UNCHANGED history

NextProbe ==
    \/ ProbeTick
    \/ LimitsTwistReceived
    \/ StatusReset
    \/ TimePasses

SpecProbe == Init /\ [][NextProbe]_vars

\* C31: when the Cartesian branch has run, kinematic_state_ holds the
\* measured joint positions set at the start of the tick, so the position
\* bound check of the same tick evaluates the measured state
C31_ProbeLeavesKinematicState ==
    (tick.path = "cartesian" /\ tick.committed) =>
        tick.kin_position = tick.original

----------------------------------------------------------------------------
(* C32: the burst of halt messages.  halt_run_log counts, beside the       *)
(* model, the ticks without a nonzero command since the last tick that     *)
(* served a nonzero command; a paused tick or a rejected command ends the  *)
(* run.  One halt message is configured (Init), and commands are zero,     *)
(* valid, NaN or out of range.                                             *)

\* the longest run that is counted
MaxRun == 4

\* halt_run_log after a tick that did t
RunAfter(log, t) ==
    IF t.path = "paused" THEN NoRun
    ELSE IF t.have_nonzero_command
    THEN IF t.usable THEN <<0>> ELSE NoRun
    ELSE IF log = NoRun THEN NoRun
    ELSE IF log[1] < MaxRun THEN <<log[1] + 1>> ELSE log

BurstTick ==
    /\ TickWith(PauseJointStates, PauseKinematics)
    /\ halt_run_log' = RunAfter(halt_run_log, tick')
    /\ UNCHANGED <<pause_log, twist_stamp_log, collision_halt_log>>

NextBurst ==
    \/ BurstTick
    \/ MalformedTwistReceived
    \/ MalformedJogReceived
    \/ PauseChanged
    \/ TimePasses

SpecBurst == Init /\ [][NextBurst]_vars

\* the tick a step takes is the n-th of a run of halts
HaltTickOfRun(n) ==
    /\ tick'.path \notin {"none", "paused"}
    /\ ~tick'.have_nonzero_command
    /\ halt_run_log # NoRun
    /\ halt_run_log' = <<n>>

\* C32 (amended): in a run of non-paused ticks without a nonzero command
\* that follows a tick which served a nonzero command, exactly the first
\* num_outgoing_halt_msgs_to_publish + 1 ticks publish a halt message; a
\* later tick with a nonzero command that the servo branch accepts (or that
\* is stale and idles) publishes and resets the count to 0, one that is
\* rejected publishes nothing and leaves the count; the count stays within
\* the maximum int
C32_HaltBurst ==
    [][/\ \A n \in 1..(MaxRun - 1) :
             HaltTickOfRun(n) =>
                 /\ tick'.halted
                 /\ (tick'.published # <<>>)
                        <=> (n <= num_outgoing_halt_msgs_to_publish + 1)
       /\ (tick'.path \notin {"none", "paused"} /\ tick'.have_nonzero_command) =>
             IF tick'.usable
             THEN tick'.published # <<>> /\ zero_velocity_count' = 0
             ELSE tick'.published = <<>>
                  /\ zero_velocity_count' = zero_velocity_count
       /\ zero_velocity_count' \in 0..IntMax]_vars

\* the tick after the burst: the third of its run, suppressed
C32_Witness ==
    /\ tick.path = "idle" /\ ~tick.have_nonzero_command
    /\ halt_run_log = <<num_outgoing_halt_msgs_to_publish + 2>>
    /\ tick.published = <<>>
    /\ num_outgoing_halt_msgs_to_publish > 0

\* C32 as stated: every tick with a nonzero command publishes and resets
\* the count to 0
C32_NonzeroAlwaysPublishes ==
    [][(tick'.path \notin {"none", "paused"} /\ tick'.have_nonzero_command) =>
          (tick'.published # <<>> /\ zero_velocity_count' = 0)]_vars

----------------------------------------------------------------------------
(* C33: the collision halt.  collision_halt_log records, beside the model, *)
(* that a servo tick has read a collision scale of 0 since the last        *)
(* resetServoStatus.  Joints are measured inside the margin of a bound or  *)
(* well inside, and the Cartesian ticks run on and off the singularity     *)
(* ramp.                                                                   *)

\* a tick that ran the Cartesian or the joint calculation to its end
ServoTick(t) == t.path \in {"cartesian", "joint"} /\ t.committed

LatchTick ==
    /\ TickWith(JointStates, LimitsKinematics)
    /\ collision_halt_log' =
           (collision_halt_log \/ (ServoTick(tick') /\ tick'.collision_scale = 0))
    /\ UNCHANGED <<pause_log, twist_stamp_log, halt_run_log>>

LatchStatusReset ==
    /\ resetServoStatus
    /\ collision_halt_log' = FALSE
    /\ UNCHANGED <<pause_log, twist_stamp_log, halt_run_log>>

NextLatch ==
    \/ LatchTick
    \/ LatchStatusReset
    \/ LimitsTwistReceived
    \/ LimitsJogReceived
    \/ CollisionScaleReceived

SpecLatch == Init /\ [][NextLatch]_vars

\* C33: from a servo tick that read a collision scale of 0 until
\* resetServoStatus, every servo tick commits a zero delta and publishes
\* zero velocities, whatever the collision scale has become and whatever
\* status was written in between
C33_CollisionHaltLatched ==
    (collision_halt_log /\ ServoTick(tick)) =>
        /\ tick.delta_theta = Fill(0)
        /\ PublishedVelocities \subseteq {0}

====
